---- MODULE Spec2Model ----
(***************************************************************************)
(* A model of the metamagic Blender addon (src/blender_addon/metamagic):   *)
(* the bone chain resolver and validator of utils.py and the side-suffix   *)
(* filter of ui.py.                                                        *)
(*                                                                         *)
(* Bone names are strings in the resolver and the validator.  The filter   *)
(* reads names character by character, so there a name is a sequence of    *)
(* one-character strings.                                                  *)
(***************************************************************************)
EXTENDS Naturals, Integers, Sequences, FiniteSets, TLC

(***************************************************************************)
(* Bounds of the model.                                                    *)
(***************************************************************************)
\* Number of bones of the armature.
NumBones == 3

\* Longest selection handed to filter_bones_by_side.
MaxSelected == 4

\* The chains of a configuration at most.
MaxChains == 2

(***************************************************************************)
(* The skeleton: an external collaborator.  A bone has a name and a parent *)
(* reference (bone.parent, None for a root).  Parent data may be malformed *)
(* (cyclic); the resolver has to tolerate that.                            *)
(***************************************************************************)
NamePool == <<"spine", "spine.001", "spine.002", "tail", "arm", "leg", "hip">>

\* armature.bones: the names that exist in the skeleton.
Bones == {NamePool[i] : i \in 1..NumBones}

\* A name that is no bone of the skeleton, and the empty name.
MissingBone == NamePool[NumBones + 1]

ArgNames == Bones \cup {MissingBone, ""}

\* bone.parent of a root bone (Python's None).
NoBone == "<None>"

ParentMaps == [Bones -> Bones \cup {NoBone}]

\* context.active_object: None, an object of another type, or an armature
\* whose data holds the bones.
NoObject == [type |-> "NONE"]

MeshObject == [type |-> "MESH"]

Armature(p) == [type |-> "ARMATURE", parent |-> p]

Objects == {NoObject, MeshObject} \cup {Armature(p) : p \in ParentMaps}

\* `not obj or obj.type != "ARMATURE"`
NotArmature(o) == o = NoObject \/ o.type # "ARMATURE"

(***************************************************************************)
(* constants.py: the messages of the validator.                            *)
(***************************************************************************)
ERROR_NOT_ARMATURE == "Object is not an armature"

ERROR_START_BONE_EMPTY == "Start bone name is empty"

ERROR_END_BONE_EMPTY == "End bone name is empty"

\* ERROR_START_BONE_NOT_FOUND.format(bone=...)
ERROR_START_BONE_NOT_FOUND(bone) == "Start bone '" \o bone \o "' not found in armature"

\* ERROR_END_BONE_NOT_FOUND.format(bone=...)
ERROR_END_BONE_NOT_FOUND(bone) == "End bone '" \o bone \o "' not found in armature"

\* ERROR_INVALID_CHAIN.format(start=..., end=...)
ERROR_INVALID_CHAIN(start, end) == "Cannot find chain from '" \o start \o "' to '" \o end \o "'"

(***************************************************************************)
(* utils.get_bones_in_chain.                                               *)
(***************************************************************************)
\* A slip: the chain is returned as walked, from end_bone up to start_bone.
ReversedNot(s) == s

\* list(reversed(chain))
Reversed(s) == [i \in 1..Len(s) |-> s[Len(s) + 1 - i]]

\* A slip: the equality test is missing, so equal names enter the loop.
ChainEntryNoEqualTest(o, start_bone, end_bone) ==
    IF NotArmature(o)
    THEN [returned |-> TRUE, value |-> <<>>]
    ELSE IF start_bone \notin DOMAIN o.parent \/ end_bone \notin DOMAIN o.parent
    THEN [returned |-> TRUE, value |-> <<>>]
    ELSE [returned |-> FALSE, value |-> <<>>]

\* The checks before the loop (utils.py 110-126).  returned tells whether
\* the function returned there; otherwise the loop starts at end_bone.
ChainEntry(o, start_bone, end_bone) ==
    IF NotArmature(o)
    THEN [returned |-> TRUE, value |-> <<>>]
    ELSE IF start_bone \notin DOMAIN o.parent \/ end_bone \notin DOMAIN o.parent
    THEN [returned |-> TRUE, value |-> <<>>]
    ELSE IF start_bone = end_bone
    THEN [returned |-> TRUE, value |-> <<start_bone>>]
    ELSE [returned |-> FALSE, value |-> <<>>]

\* The state of the walk: the locals chain, visited and current_bone, and
\* the returned value once the function has returned.
WalkStart(end_bone) ==
    [chain |-> <<>>, visited |-> {}, current_bone |-> end_bone,
     returned |-> FALSE, value |-> <<>>]

\* The parent reference followed at the bottom of the loop body.
MoveToParent(o, bone) == o.parent[bone]

\* A slip: running out of parents returns the bones walked so far.
WalkStepPartialAtRoot(o, start_bone, w) ==
    IF w.current_bone = NoBone
    THEN [w EXCEPT !.returned = TRUE, !.value = Reversed(w.chain)]
    ELSE IF w.current_bone \in w.visited
    THEN [w EXCEPT !.returned = TRUE, !.value = <<>>]
    ELSE LET chain == Append(w.chain, w.current_bone)
             visited == w.visited \cup {w.current_bone}
         IN  IF w.current_bone = start_bone
             THEN [w EXCEPT !.chain = chain, !.visited = visited,
                            !.returned = TRUE, !.value = Reversed(chain)]
             ELSE [w EXCEPT !.chain = chain, !.visited = visited,
                            !.current_bone = MoveToParent(o, w.current_bone)]

\* A slip: on meeting a visited bone the bones walked so far are returned
\* instead of the empty list.
WalkStepPartialAtCycle(o, start_bone, w) ==
    IF w.current_bone = NoBone
    THEN [w EXCEPT !.returned = TRUE, !.value = <<>>]
    ELSE IF w.current_bone \in w.visited
    THEN [w EXCEPT !.returned = TRUE, !.value = Reversed(w.chain)]
    ELSE LET chain == Append(w.chain, w.current_bone)
             visited == w.visited \cup {w.current_bone}
         IN  IF w.current_bone = start_bone
             THEN [w EXCEPT !.chain = chain, !.visited = visited,
                            !.returned = TRUE, !.value = Reversed(chain)]
             ELSE [w EXCEPT !.chain = chain, !.visited = visited,
                            !.current_bone = MoveToParent(o, w.current_bone)]

\* One test of `while current_bone:` and, when it holds, one run of the
\* loop body (utils.py 133-150).
WalkStep(o, start_bone, w) ==
    IF w.current_bone = NoBone
    THEN [w EXCEPT !.returned = TRUE, !.value = <<>>]
    ELSE IF w.current_bone \in w.visited
    THEN [w EXCEPT !.returned = TRUE, !.value = <<>>]
    ELSE LET chain == Append(w.chain, w.current_bone)
             visited == w.visited \cup {w.current_bone}
         IN  IF w.current_bone = start_bone
             THEN [w EXCEPT !.chain = chain, !.visited = visited,
                            !.returned = TRUE, !.value = Reversed(chain)]
             ELSE [w EXCEPT !.chain = chain, !.visited = visited,
                            !.current_bone = MoveToParent(o, w.current_bone)]

\* The loop run to its return.  Every pass either returns or adds a bone to
\* visited, so the recursion is no deeper than the number of bones plus one.
RECURSIVE WalkToReturn(_, _, _)
WalkToReturn(o, start_bone, w) ==
    IF w.returned THEN w.value ELSE WalkToReturn(o, start_bone, WalkStep(o, start_bone, w))

get_bones_in_chain(o, start_bone, end_bone) ==
    LET entry == ChainEntry(o, start_bone, end_bone)
    IN  IF entry.returned
        THEN entry.value
        ELSE WalkToReturn(o, start_bone, WalkStart(end_bone))

(***************************************************************************)
(* utils.validate_jiggle_chain: (is_valid, error_message).                 *)
(***************************************************************************)
\* A slip: the end name is tested for emptiness before the start name.
validate_jiggle_chain_EndFirst(o, start_bone, end_bone) ==
    IF NotArmature(o)
    THEN <<FALSE, ERROR_NOT_ARMATURE>>
    ELSE IF end_bone = ""
    THEN <<FALSE, ERROR_END_BONE_EMPTY>>
    ELSE IF start_bone = ""
    THEN <<FALSE, ERROR_START_BONE_EMPTY>>
    ELSE IF start_bone \notin DOMAIN o.parent
    THEN <<FALSE, ERROR_START_BONE_NOT_FOUND(start_bone)>>
    ELSE IF end_bone \notin DOMAIN o.parent
    THEN <<FALSE, ERROR_END_BONE_NOT_FOUND(end_bone)>>
    ELSE IF get_bones_in_chain(o, start_bone, end_bone) = <<>>
    THEN <<FALSE, ERROR_INVALID_CHAIN(start_bone, end_bone)>>
    ELSE <<TRUE, "">>

\* A slip: two existing bones are accepted without resolving the chain.
validate_jiggle_chain_NoChainTest(o, start_bone, end_bone) ==
    IF NotArmature(o)
    THEN <<FALSE, ERROR_NOT_ARMATURE>>
    ELSE IF start_bone = ""
    THEN <<FALSE, ERROR_START_BONE_EMPTY>>
    ELSE IF end_bone = ""
    THEN <<FALSE, ERROR_END_BONE_EMPTY>>
    ELSE IF start_bone \notin DOMAIN o.parent
    THEN <<FALSE, ERROR_START_BONE_NOT_FOUND(start_bone)>>
    ELSE IF end_bone \notin DOMAIN o.parent
    THEN <<FALSE, ERROR_END_BONE_NOT_FOUND(end_bone)>>
    ELSE <<TRUE, "">>

validate_jiggle_chain(o, start_bone, end_bone) ==
    IF NotArmature(o)
    THEN <<FALSE, ERROR_NOT_ARMATURE>>
    ELSE IF start_bone = ""
    THEN <<FALSE, ERROR_START_BONE_EMPTY>>
    ELSE IF end_bone = ""
    THEN <<FALSE, ERROR_END_BONE_EMPTY>>
    ELSE IF start_bone \notin DOMAIN o.parent
    THEN <<FALSE, ERROR_START_BONE_NOT_FOUND(start_bone)>>
    ELSE IF end_bone \notin DOMAIN o.parent
    THEN <<FALSE, ERROR_END_BONE_NOT_FOUND(end_bone)>>
    ELSE IF get_bones_in_chain(o, start_bone, end_bone) = <<>>
    THEN <<FALSE, ERROR_INVALID_CHAIN(start_bone, end_bone)>>
    ELSE <<TRUE, "">>

(***************************************************************************)
(* Strings read character by character: a sequence of one-character        *)
(* strings.  str.lower, str.upper and str.rsplit of Python.                *)
(***************************************************************************)
LowerCase == <<"a", "b", "c", "d", "e", "f", "g", "h", "i", "j", "k", "l", "m", "n", "o", "p", "q", "r", "s", "t", "u", "v", "w", "x", "y", "z">>

UpperCase == <<"A", "B", "C", "D", "E", "F", "G", "H", "I", "J", "K", "L", "M", "N", "O", "P", "Q", "R", "S", "T", "U", "V", "W", "X", "Y", "Z">>

Lower(c) ==
    IF \E i \in 1..Len(UpperCase) : UpperCase[i] = c
    THEN LowerCase[CHOOSE i \in 1..Len(UpperCase) : UpperCase[i] = c]
    ELSE c

Upper(c) ==
    IF \E i \in 1..Len(LowerCase) : LowerCase[i] = c
    THEN UpperCase[CHOOSE i \in 1..Len(LowerCase) : LowerCase[i] = c]
    ELSE c

str_lower(s) == [i \in 1..Len(s) |-> Lower(s[i])]

str_upper(s) == [i \in 1..Len(s) |-> Upper(s[i])]

\* s.rsplit(".", 1)[0]: s up to its last dot, all of s when it has none.
rsplit_dot(s) ==
    LET dots == {i \in 1..Len(s) : s[i] = "."}
    IN  IF dots = {}
        THEN s
        ELSE SubSeq(s, 1, (CHOOSE i \in dots : \A j \in dots : j <= i) - 1)

(***************************************************************************)
(* constants.BONE_SUFFIX_PATTERNS, in order.  Each pattern is              *)
(* (.+?)<sep>(<side>|<side>)$ : a base of at least one character, the      *)
(* separator, and one of the side words at the end of the string.          *)
(***************************************************************************)
BONE_SUFFIX_PATTERNS ==
    << [sep |-> ".", sides |-> {<<"L">>, <<"R">>}],
       [sep |-> "_", sides |-> {<<"L">>, <<"R">>}],
       [sep |-> "_", sides |-> {<<"l", "e", "f", "t">>, <<"r", "i", "g", "h", "t">>}] >>

NoMatch == [matched |-> FALSE]

\* re.match(pattern, s, re.IGNORECASE): the groups (base, side) as they
\* stand in s, or no match.
re_match(pattern, s) ==
    LET fits == {side \in pattern.sides :
                    /\ Len(s) >= Len(side) + 2
                    /\ s[Len(s) - Len(side)] = pattern.sep
                    /\ str_lower(SubSeq(s, Len(s) - Len(side) + 1, Len(s))) = str_lower(side)}
    IN  IF fits = {}
        THEN NoMatch
        ELSE LET side == CHOOSE x \in fits : TRUE
             IN  [matched |-> TRUE,
                  base |-> SubSeq(s, 1, Len(s) - Len(side) - 1),
                  side |-> SubSeq(s, Len(s) - Len(side) + 1, Len(s))]

\* The loop over the patterns from the i-th on: the first match decides.
RECURSIVE TryPatterns(_, _)
TryPatterns(s, i) ==
    IF i > Len(BONE_SUFFIX_PATTERNS)
    THEN <<str_lower(s), <<>>>>
    ELSE LET m == re_match(BONE_SUFFIX_PATTERNS[i], s)
         IN  IF m.matched
             THEN <<str_lower(m.base), str_upper(m.side)>>
             ELSE TryPatterns(s, i + 1)

\* JIGGLE_OT_set_chain_from_selection._parse_bone_side: (base, side), the
\* side empty when no pattern matches.
parse_bone_side(bone_name) == TryPatterns(rsplit_dot(bone_name), 1)

(***************************************************************************)
(* JIGGLE_OT_set_chain_from_selection.filter_bones_by_side.                *)
(***************************************************************************)
\* The loop over bone_names[1:] that looks for a mirrored pair, from the
\* i-th name on; it stops at the first one found.
RECURSIVE HasMirroredPairs(_, _, _, _)
HasMirroredPairs(bone_names, i, first_base, first_side) ==
    IF i > Len(bone_names)
    THEN FALSE
    ELSE LET parsed == parse_bone_side(bone_names[i])
         IN  IF parsed[1] = first_base /\ parsed[2] # <<>> /\ parsed[2] # first_side
             THEN TRUE
             ELSE HasMirroredPairs(bone_names, i + 1, first_base, first_side)

\* A slip: a name is kept only when its side is the first name's side.
KeepBoneSameSideOnly(parsed, first_base, first_side) == parsed[2] = first_side

\* The test of the filtering loop: the name has no side, or the first
\* name's side, or another base.
KeepBone(parsed, first_base, first_side) ==
    parsed[2] = <<>> \/ parsed[2] = first_side \/ parsed[1] # first_base

\* A slip: the loop stops testing after the first name it drops and keeps
\* the names after it.
RECURSIVE FilterLoopDropsOne(_, _, _, _, _)
FilterLoopDropsOne(bone_names, i, first_base, first_side, filtered_bones) ==
    IF i > Len(bone_names)
    THEN filtered_bones
    ELSE IF KeepBone(parse_bone_side(bone_names[i]), first_base, first_side)
    THEN FilterLoopDropsOne(bone_names, i + 1, first_base, first_side,
                            Append(filtered_bones, bone_names[i]))
    ELSE filtered_bones \o SubSeq(bone_names, i + 1, Len(bone_names))

\* The filtering loop from the i-th name on, appending to filtered_bones.
RECURSIVE FilterLoop(_, _, _, _, _)
FilterLoop(bone_names, i, first_base, first_side, filtered_bones) ==
    IF i > Len(bone_names)
    THEN filtered_bones
    ELSE FilterLoop(bone_names, i + 1, first_base, first_side,
                    IF KeepBone(parse_bone_side(bone_names[i]), first_base, first_side)
                    THEN Append(filtered_bones, bone_names[i])
                    ELSE filtered_bones)

\* A slip: the names with a side are all dropped, and the result is returned
\* even when it is empty.
filter_bones_by_side_unsided(bone_names) ==
    IF bone_names = <<>> \/ Len(bone_names) < 2
    THEN bone_names
    ELSE LET first == parse_bone_side(bone_names[1])
         IN  IF first[2] = <<>>
             THEN bone_names
             ELSE IF ~HasMirroredPairs(bone_names, 2, first[1], first[2])
             THEN bone_names
             ELSE SelectSeq(bone_names, LAMBDA n : parse_bone_side(n)[2] = <<>>)

filter_bones_by_side(bone_names) ==
    IF bone_names = <<>> \/ Len(bone_names) < 2
    THEN bone_names
    ELSE LET first == parse_bone_side(bone_names[1])
             first_base == first[1]
             first_side == first[2]
         IN  IF first_side = <<>>
             THEN bone_names
             ELSE IF ~HasMirroredPairs(bone_names, 2, first_base, first_side)
             THEN bone_names
             ELSE LET filtered_bones == FilterLoop(bone_names, 1, first_base, first_side, <<>>)
                  IN  IF filtered_bones # <<>> THEN filtered_bones ELSE bone_names

(***************************************************************************)
(* The names a selection is drawn from, each written as its parts: the     *)
(* stem, the side suffix with its separator, and the suffix that the host  *)
(* gives a duplicated bone.                                                *)
(***************************************************************************)
NameParts ==
    { [stem |-> <<"t", "a", "i", "l">>, side |-> <<"_", "L">>, dup |-> <<>>],
      [stem |-> <<"t", "a", "i", "l">>, side |-> <<"_", "L">>, dup |-> <<".", "0", "0", "1">>],
      [stem |-> <<"t", "a", "i", "l">>, side |-> <<"_", "R">>, dup |-> <<>>],
      [stem |-> <<"t", "a", "i", "l">>, side |-> <<"_", "R">>, dup |-> <<".", "0", "0", "1">>],
      [stem |-> <<"a", "r", "m">>, side |-> <<".", "L">>, dup |-> <<>>],
      [stem |-> <<"a", "r", "m">>, side |-> <<".", "R">>, dup |-> <<>>],
      [stem |-> <<"a", "r", "m">>, side |-> <<".", "R">>, dup |-> <<".", "0", "0", "1">>],
      [stem |-> <<"s", "p", "i", "n", "e">>, side |-> <<>>, dup |-> <<>>],
      [stem |-> <<"l", "e", "g">>, side |-> <<"_", "l", "e", "f", "t">>, dup |-> <<>>],
      [stem |-> <<"L", "E", "G">>, side |-> <<"_", "R", "i", "g", "h", "t">>, dup |-> <<>>] }

NameOf(parts) == parts.stem \o parts.side \o parts.dup

SelectableNames == {NameOf(parts) : parts \in NameParts}

(***************************************************************************)
(* The armature of the rotation chain operator.  armature.bones lists its  *)
(* bones in the order of RigOrder.  The skeletons tried have the first     *)
(* bones of RigOrder, numbered parent before child and level by level      *)
(* (every forest can be numbered so); the parent reference of the first    *)
(* bone may be malformed and name any bone, the bone itself included.      *)
(***************************************************************************)
RigOrder == <<"A", "B", "C", "D", "E">>

RigBones == {RigOrder[i] : i \in 1..Len(RigOrder)}

RigPrefix(n) == {RigOrder[i] : i \in 1..n}

RigIndex(b) == IF b = NoBone THEN 0 ELSE CHOOSE i \in 1..Len(RigOrder) : RigOrder[i] = b

RigNumbering(p, n) ==
    /\ \A i \in 2..n : RigIndex(p[RigOrder[i]]) < i
    /\ \A i \in 3..n : RigIndex(p[RigOrder[i - 1]]) <= RigIndex(p[RigOrder[i]])

RigParentMaps ==
    UNION { {p \in [RigPrefix(n) -> RigPrefix(n) \cup {NoBone}] : RigNumbering(p, n)} :
            n \in 1..Len(RigOrder) }

\* for bone in armature.bones
armature_bones(o) == SelectSeq(RigOrder, LAMBDA b : b \in DOMAIN o.parent)

\* The edit bones that can be selected: the bones of the armature and one
\* bone added in edit mode, which armature.bones does not have yet.
EditBones(o) ==
    IF NotArmature(o)
    THEN {}
    ELSE RigPrefix(IF Cardinality(DOMAIN o.parent) < Len(RigOrder)
                   THEN Cardinality(DOMAIN o.parent) + 1
                   ELSE Len(RigOrder))

\* The lists of at most n different names of S.
RECURSIVE ListsOf(_, _)
ListsOf(S, n) ==
    IF n = 0
    THEN {<<>>}
    ELSE LET shorter == ListsOf(S, n - 1)
         IN  shorter \cup
             {Append(x[1], x[2]) :
                 x \in {y \in shorter \X S :
                           /\ Len(y[1]) = n - 1
                           /\ \A i \in 1..Len(y[1]) : y[1][i] # y[2]}}

(***************************************************************************)
(* constants.py: the modes, the constraint settings and the messages of    *)
(* the rotation chain operator.  CONSTRAINT_INFLUENCE is in hundredths.    *)
(***************************************************************************)
MODE_EDIT_ARMATURE == "EDIT_ARMATURE"

MODE_OBJECT == "OBJECT"

CONSTRAINT_TYPE == "COPY_ROTATION"

CONSTRAINT_OWNER_SPACE == "LOCAL"

CONSTRAINT_TARGET_SPACE == "LOCAL"

CONSTRAINT_INFLUENCE == 100

ERROR_NO_ARMATURE_SELECTED == "No armature selected"

ERROR_NEED_EDIT_MODE == "Select bones in Edit Mode"

ERROR_MIN_BONES_REQUIRED(count) == "Select at least " \o ToString(count) \o " bones"

ERROR_HIERARCHY_INVALID == "Could not determine bone hierarchy - check parent relationships"

ERROR_INVALID_POSE_BONE(bone) == "Could not find pose bone: " \o bone

SUCCESS_ROTATION_CHAIN_CREATED(count) ==
    "Created rotation chain with " \o ToString(count) \o " bones"

WARNING_BRANCHES_DETECTED(bone) ==
    "Multiple branches detected at '" \o bone \o "' - rotation chain may not work as expected"

WARNING_BONES_NOT_IN_CHAIN(bones) == "Selected bones not in chain: " \o bones

(***************************************************************************)
(* JIGGLE_OT_create_rotation_chain: find_topmost_bone, build_chain_from_top *)
(* and build_chain_bfs, each as the passes of its loop.                    *)
(***************************************************************************)
\* name in selected_bones
InSelection(name, selected_bones) ==
    \E i \in 1..Len(selected_bones) : selected_bones[i] = name

\* The next pass of the for loop of find_topmost_bone from position i on:
\* names that armature.bones does not have are skipped; the walk of the
\* first bone found starts at its parent, and past the last name the
\* function returns None.
RECURSIVE TopmostCandidate(_, _, _)
TopmostCandidate(o, selected_bones, i) ==
    IF i > Len(selected_bones)
    THEN [returned |-> TRUE, value |-> NoBone, i |-> i, current_bone |-> NoBone]
    ELSE IF selected_bones[i] \notin DOMAIN o.parent
         THEN TopmostCandidate(o, selected_bones, i + 1)
         ELSE [returned |-> FALSE, value |-> NoBone, i |-> i,
               current_bone |-> o.parent[selected_bones[i]]]

\* A slip: a selected ancestor ends the whole search, not the walk of one
\* bone.
TopmostStepGivesUp(o, selected_bones, f) ==
    IF f.current_bone = NoBone
    THEN [returned |-> TRUE, value |-> selected_bones[f.i], i |-> f.i,
          current_bone |-> NoBone]
    ELSE IF InSelection(f.current_bone, selected_bones)
         THEN [returned |-> TRUE, value |-> NoBone, i |-> f.i, current_bone |-> NoBone]
         ELSE [returned |-> FALSE, value |-> NoBone, i |-> f.i,
               current_bone |-> o.parent[f.current_bone]]

\* One test of the while loop of find_topmost_bone and what follows it: the
\* walk is over (the bone is the topmost), a selected ancestor is met (the
\* for loop goes on), or the walk moves up.
TopmostStep(o, selected_bones, f) ==
    IF f.current_bone = NoBone
    THEN [returned |-> TRUE, value |-> selected_bones[f.i], i |-> f.i,
          current_bone |-> NoBone]
    ELSE IF InSelection(f.current_bone, selected_bones)
         THEN TopmostCandidate(o, selected_bones, f.i + 1)
         ELSE [returned |-> FALSE, value |-> NoBone, i |-> f.i,
               current_bone |-> o.parent[f.current_bone]]

\* children_in_selection, in the order of armature.bones.
children_in_selection(o, current_bone, selected_bones) ==
    SelectSeq(armature_bones(o),
              LAMBDA bone : /\ o.parent[bone] = current_bone
                            /\ InSelection(bone, selected_bones))

\* A slip: two selected children are still followed as one.
ChainStepFirstChild(o, selected_bones, l) ==
    IF ~InSelection(l.current_bone, selected_bones)
    THEN [l EXCEPT !.returned = TRUE]
    ELSE LET children == children_in_selection(o, l.current_bone, selected_bones)
             chain == Append(l.chain, l.current_bone)
         IN  IF Len(children) = 0
             THEN [l EXCEPT !.returned = TRUE, !.chain = chain]
             ELSE [l EXCEPT !.chain = chain, !.current_bone = children[1]]

\* A slip: the bone is put at the front of the chain.
ChainStepPrepends(o, selected_bones, l) ==
    IF ~InSelection(l.current_bone, selected_bones)
    THEN [l EXCEPT !.returned = TRUE]
    ELSE LET children == children_in_selection(o, l.current_bone, selected_bones)
             chain == <<l.current_bone>> \o l.chain
         IN  IF Len(children) = 0
             THEN [l EXCEPT !.returned = TRUE, !.chain = chain]
             ELSE IF Len(children) = 1
                  THEN [l EXCEPT !.chain = chain, !.current_bone = children[1]]
                  ELSE [l EXCEPT !.chain = <<>>,
                                 !.is_linear = FALSE,
                                 !.branch_bone = l.current_bone,
                                 !.bones_to_visit = <<l.top_bone>>]

\* One pass of the while loop of build_chain_from_top.  With more than one
\* selected child the pass hands over to build_chain_bfs(top_bone, ...).
ChainStep(o, selected_bones, l) ==
    IF ~InSelection(l.current_bone, selected_bones)
    THEN [l EXCEPT !.returned = TRUE]
    ELSE LET children == children_in_selection(o, l.current_bone, selected_bones)
             chain == Append(l.chain, l.current_bone)
         IN  IF Len(children) = 0
             THEN [l EXCEPT !.returned = TRUE, !.chain = chain]
             ELSE IF Len(children) = 1
                  THEN [l EXCEPT !.chain = chain, !.current_bone = children[1]]
                  ELSE [l EXCEPT !.chain = <<>>,
                                 !.is_linear = FALSE,
                                 !.branch_bone = l.current_bone,
                                 !.bones_to_visit = <<l.top_bone>>]

\* A slip: of the selected children only the first is enqueued.
BfsStepFirstChildOnly(o, selected_bones, l) ==
    LET current_bone == Head(l.bones_to_visit)
        rest == Tail(l.bones_to_visit)
        children == children_in_selection(o, current_bone, selected_bones)
    IN  IF InSelection(current_bone, selected_bones)
        THEN [l EXCEPT !.chain = Append(l.chain, current_bone),
                       !.bones_to_visit =
                           rest \o (IF children = <<>> THEN <<>> ELSE <<children[1]>>)]
        ELSE [l EXCEPT !.bones_to_visit = rest]

\* One pass of the while loop of build_chain_bfs.
BfsStep(o, selected_bones, l) ==
    LET current_bone == Head(l.bones_to_visit)
        rest == Tail(l.bones_to_visit)
    IN  IF InSelection(current_bone, selected_bones)
        THEN [l EXCEPT !.chain = Append(l.chain, current_bone),
                       !.bones_to_visit =
                           rest \o children_in_selection(o, current_bone, selected_bones)]
        ELSE [l EXCEPT !.bones_to_visit = rest]

\* pose_bone.constraints.new(type=...): the host's new constraint.
new_constraint(type) ==
    [type |-> type, target |-> NoObject, subtarget |-> "",
     owner_space |-> "WORLD", target_space |-> "WORLD", influence |-> 100]

\* The search for existing_constraint from position k on: the position of
\* the first constraint of the type that targets o, 0 when there is none.
RECURSIVE existing_constraint(_, _, _)
existing_constraint(cs, o, k) ==
    IF k > Len(cs)
    THEN 0
    ELSE IF cs[k].type = CONSTRAINT_TYPE /\ cs[k].target = o
         THEN k
         ELSE existing_constraint(cs, o, k + 1)

\* A slip: the constraint is always created, never looked up.
ConstrainBoneAlwaysNew(cs, o, prev_bone_name) ==
    Append(cs, [new_constraint(CONSTRAINT_TYPE) EXCEPT
                    !.target = o,
                    !.subtarget = prev_bone_name,
                    !.owner_space = CONSTRAINT_OWNER_SPACE,
                    !.target_space = CONSTRAINT_TARGET_SPACE,
                    !.influence = CONSTRAINT_INFLUENCE])

\* The body of the constraint loop for a bone that has a pose bone with the
\* constraints cs.
ConstrainBone(cs, o, prev_bone_name) ==
    LET k == existing_constraint(cs, o, 1)
    IN  IF k # 0
        THEN [cs EXCEPT ![k] = [@ EXCEPT !.subtarget = prev_bone_name,
                                         !.owner_space = CONSTRAINT_OWNER_SPACE,
                                         !.target_space = CONSTRAINT_TARGET_SPACE,
                                         !.influence = CONSTRAINT_INFLUENCE]]
        ELSE Append(cs, [new_constraint(CONSTRAINT_TYPE) EXCEPT
                             !.target = o,
                             !.subtarget = prev_bone_name,
                             !.owner_space = CONSTRAINT_OWNER_SPACE,
                             !.target_space = CONSTRAINT_TARGET_SPACE,
                             !.influence = CONSTRAINT_INFLUENCE])

\* for i in range(1, len(chain)), from position i on (positions count from
\* 1 here).  st holds the constraints of the pose bones and the reports.
RECURSIVE ConstraintLoop(_, _, _, _)
ConstraintLoop(o, chain, i, st) ==
    IF i > Len(chain)
    THEN st
    ELSE IF chain[i] \notin DOMAIN st.constraints
         THEN ConstraintLoop(o, chain, i + 1,
                  [st EXCEPT !.reports =
                       Append(@, <<"ERROR", ERROR_INVALID_POSE_BONE(chain[i])>>)])
         ELSE ConstraintLoop(o, chain, i + 1,
                  [st EXCEPT !.constraints[chain[i]] =
                       ConstrainBone(@, o, chain[i - 1])])

\* ", ".join(names) for a list of names.
RECURSIVE Join(_)
Join(names) ==
    IF Len(names) = 0
    THEN ""
    ELSE IF Len(names) = 1
         THEN names[1]
         ELSE names[1] \o ", " \o Join(Tail(names))

\* sorted(set(selected_bone_names) - set(chain)); RigOrder is in sorted
\* order.
missing_bones(selected_bone_names, chain) ==
    SelectSeq(RigOrder, LAMBDA b : /\ InSelection(b, selected_bone_names)
                                   /\ ~InSelection(b, chain))

\* The reports of execute between the chain and the constraint loop.
ChainWarnings(selected_bone_names, l) ==
    (IF missing_bones(selected_bone_names, l.chain) # <<>>
     THEN << <<"WARNING",
               WARNING_BONES_NOT_IN_CHAIN(Join(missing_bones(selected_bone_names, l.chain)))>> >>
     ELSE <<>>)
    \o
    (IF ~l.is_linear
     THEN << <<"WARNING", WARNING_BRANCHES_DETECTED(l.branch_bone)>> >>
     ELSE <<>>)

(***************************************************************************)
(* Python values as json reads and writes them.  Every value is a record   *)
(* of the same shape; a list or dict keeps its elements in items, each     *)
(* with its key ("" in a list).  Numbers are in hundredths.                *)
(***************************************************************************)
PyNone == [kind |-> "none", s |-> "", n |-> 0, b |-> FALSE, items |-> <<>>]

PyStr(s) == [kind |-> "str", s |-> s, n |-> 0, b |-> FALSE, items |-> <<>>]

PyNum(n) == [kind |-> "num", s |-> "", n |-> n, b |-> FALSE, items |-> <<>>]

PyBool(b) == [kind |-> "bool", s |-> "", n |-> 0, b |-> b, items |-> <<>>]

PyList(values) ==
    [kind |-> "list", s |-> "", n |-> 0, b |-> FALSE,
     items |-> [i \in 1..Len(values) |-> [key |-> "", val |-> values[i]]]]

\* A dict of the pairs <<key, value>>, in insertion order.
PyDict(pairs) ==
    [kind |-> "dict", s |-> "", n |-> 0, b |-> FALSE,
     items |-> [i \in 1..Len(pairs) |-> [key |-> pairs[i][1], val |-> pairs[i][2]]]]

isinstance(v, kind) == v.kind = kind

\* key in d
dict_has(d, key) == \E i \in 1..Len(d.items) : d.items[i].key = key

\* d.get(key, default)
dict_get(d, key, default) ==
    IF dict_has(d, key)
    THEN d.items[CHOOSE i \in 1..Len(d.items) : d.items[i].key = key].val
    ELSE default

(***************************************************************************)
(* json.dumps and json.loads.  A JSON text is the sequence of its tokens;  *)
(* white space is left out.  A string token is the string in quotes, a     *)
(* number token its digits.                                                *)
(***************************************************************************)
Quote(s) == "\"" \o s \o "\""

RECURSIVE json_dumps(_)
RECURSIVE DumpItems(_, _, _)
DumpItems(items, i, keyed) ==
    IF i > Len(items)
    THEN <<>>
    ELSE (IF i > 1 THEN <<",">> ELSE <<>>)
         \o (IF keyed THEN <<Quote(items[i].key), ":">> ELSE <<>>)
         \o json_dumps(items[i].val)
         \o DumpItems(items, i + 1, keyed)

json_dumps(v) ==
    CASE v.kind = "str" -> <<Quote(v.s)>>
      [] v.kind = "num" -> <<ToString(v.n)>>
      [] v.kind = "bool" -> <<IF v.b THEN "true" ELSE "false">>
      [] v.kind = "none" -> <<"null">>
      [] v.kind = "list" -> <<"[">> \o DumpItems(v.items, 1, FALSE) \o <<"]">>
      [] v.kind = "dict" -> <<"{">> \o DumpItems(v.items, 1, TRUE) \o <<"}">>

\* The strings and the numbers that the texts of the model spell out.
KnownStrings ==
    {"", "chains", "start_bone", "end_bone", "stiffness", "drag", "gravity", "radius",
     "extend_end_bone", "stiff", "tail_L", "tail_L.001", "tail_R", "tail_R.001"}

KnownNumbers == {0, 2, 5, 10, 40, 100, 250, 980}

ParseError == [ok |-> FALSE, val |-> PyNone, next |-> 0]

Parsed(v, next) == [ok |-> TRUE, val |-> v, next |-> next]

\* d[key] = val
dict_set(items, key, val) ==
    IF \E i \in 1..Len(items) : items[i].key = key
    THEN [i \in 1..Len(items) |->
             IF items[i].key = key THEN [key |-> key, val |-> val] ELSE items[i]]
    ELSE Append(items, [key |-> key, val |-> val])

\* The value that starts at token i of the text t, and the position after
\* it.
RECURSIVE ParseValue(_, _)
RECURSIVE ParseItems(_, _, _, _)
ParseItems(t, i, keyed, items) ==
    LET close == IF keyed THEN "}" ELSE "]"
        at_value == IF keyed THEN i + 2 ELSE i
        key_ok == \/ ~keyed
                  \/ /\ i + 1 <= Len(t)
                     /\ \E s \in KnownStrings : t[i] = Quote(s)
                     /\ t[i + 1] = ":"
        key == IF keyed THEN CHOOSE s \in KnownStrings : t[i] = Quote(s) ELSE ""
    IN  IF ~key_ok
        THEN ParseError
        ELSE LET r == ParseValue(t, at_value)
             IN  IF ~r.ok \/ r.next > Len(t)
                 THEN ParseError
                 ELSE LET more == IF keyed
                                  THEN dict_set(items, key, r.val)
                                  ELSE Append(items, [key |-> "", val |-> r.val])
                      IN  IF t[r.next] = close
                          THEN Parsed([kind |-> IF keyed THEN "dict" ELSE "list",
                                       s |-> "", n |-> 0, b |-> FALSE, items |-> more],
                                      r.next + 1)
                          ELSE IF t[r.next] = ","
                               THEN ParseItems(t, r.next + 1, keyed, more)
                               ELSE ParseError

ParseValue(t, i) ==
    IF i > Len(t)
    THEN ParseError
    ELSE IF t[i] \in {"[", "{"}
    THEN IF i + 1 <= Len(t) /\ t[i + 1] = (IF t[i] = "[" THEN "]" ELSE "}")
         THEN Parsed([kind |-> IF t[i] = "[" THEN "list" ELSE "dict",
                      s |-> "", n |-> 0, b |-> FALSE, items |-> <<>>], i + 2)
         ELSE ParseItems(t, i + 1, t[i] = "{", <<>>)
    ELSE IF \E s \in KnownStrings : t[i] = Quote(s)
    THEN Parsed(PyStr(CHOOSE s \in KnownStrings : t[i] = Quote(s)), i + 1)
    ELSE IF \E n \in KnownNumbers : t[i] = ToString(n)
    THEN Parsed(PyNum(CHOOSE n \in KnownNumbers : t[i] = ToString(n)), i + 1)
    ELSE IF t[i] \in {"true", "false"}
    THEN Parsed(PyBool(t[i] = "true"), i + 1)
    ELSE IF t[i] = "null"
    THEN Parsed(PyNone, i + 1)
    ELSE ParseError

\* json.loads: the value of the whole text; ok is false where json.loads
\* raises JSONDecodeError.
json_loads(t) ==
    LET r == ParseValue(t, 1)
    IN  IF r.ok /\ r.next = Len(t) + 1
        THEN [ok |-> TRUE, value |-> r.val]
        ELSE [ok |-> FALSE, value |-> PyNone]

(***************************************************************************)
(* properties.py: a chain of the jiggle configuration and its JSON form.   *)
(* The physics values are numbers in hundredths.                           *)
(***************************************************************************)
DEFAULT_STIFFNESS == 100

DEFAULT_DRAG == 40

DEFAULT_GRAVITY == 0

DEFAULT_RADIUS == 2

\* chains.add(): a chain with the defaults of its properties.
new_chain ==
    [start_bone |-> "", end_bone |-> "", stiffness |-> DEFAULT_STIFFNESS,
     drag |-> DEFAULT_DRAG, gravity |-> DEFAULT_GRAVITY, radius |-> DEFAULT_RADIUS,
     extend_end_bone |-> FALSE]

\* A slip: the last key is not the one from_json reads.
to_dict_OtherKey(chain) ==
    PyDict(<< <<"start_bone", PyStr(chain.start_bone)>>,
              <<"end_bone", PyStr(chain.end_bone)>>,
              <<"stiffness", PyNum(chain.stiffness)>>,
              <<"drag", PyNum(chain.drag)>>,
              <<"gravity", PyNum(chain.gravity)>>,
              <<"radius", PyNum(chain.radius)>>,
              <<"extend_end", PyBool(chain.extend_end_bone)>> >>)

to_dict(chain) ==
    PyDict(<< <<"start_bone", PyStr(chain.start_bone)>>,
              <<"end_bone", PyStr(chain.end_bone)>>,
              <<"stiffness", PyNum(chain.stiffness)>>,
              <<"drag", PyNum(chain.drag)>>,
              <<"gravity", PyNum(chain.gravity)>>,
              <<"radius", PyNum(chain.radius)>>,
              <<"extend_end_bone", PyBool(chain.extend_end_bone)>> >>)

to_json(chains) == json_dumps(PyList([i \in 1..Len(chains) |-> to_dict(chains[i])]))

\* The properties of a chain in the order the loaders assign them, and the
\* default each loader passes to chain_data.get.
FieldOrder ==
    <<"start_bone", "end_bone", "stiffness", "drag", "gravity", "radius",
      "extend_end_bone">>

FieldDefault(f) ==
    CASE f \in {"start_bone", "end_bone"} -> PyStr("")
      [] f = "stiffness" -> PyNum(DEFAULT_STIFFNESS)
      [] f = "drag" -> PyNum(DEFAULT_DRAG)
      [] f = "gravity" -> PyNum(DEFAULT_GRAVITY)
      [] f = "radius" -> PyNum(DEFAULT_RADIUS)
      [] f = "extend_end_bone" -> PyBool(FALSE)

\* What the host stores for chain.<f> = value: a StringProperty takes a
\* str, a FloatProperty a number or a bool, a BoolProperty a bool, 0 or 1;
\* anything else raises TypeError.
PropertyValue(f, value) ==
    IF f \in {"start_bone", "end_bone"}
    THEN [raised |-> value.kind # "str", stored |-> PyStr(value.s)]
    ELSE IF f = "extend_end_bone"
    THEN [raised |-> ~(value.kind = "bool" \/ (value.kind = "num" /\ value.n \in {0, 100})),
          stored |-> PyBool(IF value.kind = "bool" THEN value.b ELSE value.n = 100)]
    ELSE [raised |-> value.kind \notin {"num", "bool"},
          stored |-> PyNum(IF value.kind = "bool"
                           THEN (IF value.b THEN 100 ELSE 0)
                           ELSE value.n)]

\* The custom property obj["jiggle_bones_config"]: absent, or a JSON text.
NoProperty == [present |-> FALSE, value |-> <<>>]

\* obj[JIGGLE_CONFIG_KEY] = json_string with the configuration cfg; the
\* write raises when the custom properties cannot be written.
WriteProperty(cfg, writable) ==
    IF writable
    THEN [cfg EXCEPT !.custom_property = [present |-> TRUE, value |-> to_json(cfg.chains)]]
    ELSE [cfg EXCEPT !.save_error = TRUE]

\* update_chain_property: the update callback of every property of a chain.
\* It prints an exception of the write and goes on.
update_chain_property(cfg, writable) == WriteProperty(cfg, writable)

\* chain.<f> = value for the chain at position i, with its update callback.
SetChainProperty(cfg, i, f, value, writable) ==
    LET pv == PropertyValue(f, value)
        v == IF f \in {"start_bone", "end_bone"}
             THEN pv.stored.s
             ELSE IF f = "extend_end_bone" THEN pv.stored.b ELSE pv.stored.n
    IN  IF pv.raised
        THEN [cfg EXCEPT !.raised = TRUE]
        ELSE update_chain_property([cfg EXCEPT !.chains[i][f] = v], writable)

\* The assignments of one pass of the loading loop, from property k on; an
\* assignment that raises ends them.
RECURSIVE LoadFields(_, _, _, _)
LoadFields(cfg, chain_data, k, writable) ==
    IF k > Len(FieldOrder) \/ cfg.raised
    THEN cfg
    ELSE LoadFields(SetChainProperty(cfg, Len(cfg.chains), FieldOrder[k],
                                     dict_get(chain_data, FieldOrder[k],
                                              FieldDefault(FieldOrder[k])),
                                     writable),
                    chain_data, k + 1, writable)

\* for chain_data in chains_data, from entry i on.
RECURSIVE LoadChains(_, _, _, _)
LoadChains(cfg, chains_data, i, writable) ==
    IF i > Len(chains_data.items) \/ cfg.raised
    THEN cfg
    ELSE LoadChains(LoadFields([cfg EXCEPT !.chains = Append(@, new_chain)],
                               chains_data.items[i].val, 1, writable),
                    chains_data, i + 1, writable)

\* for chain_data in chains_data: isinstance(chain_data, dict)
AllDicts(chains_data) ==
    \A i \in 1..Len(chains_data.items) : isinstance(chains_data.items[i].val, "dict")

\* A slip: the chains are cleared before the entries are validated.
from_json_ClearsFirst(cfg, json_string, writable) ==
    LET r == json_loads(json_string)
    IN  IF ~r.ok \/ ~isinstance(r.value, "list")
        THEN [cfg EXCEPT !.ret = FALSE]
        ELSE IF ~AllDicts(r.value)
        THEN [cfg EXCEPT !.ret = FALSE, !.chains = <<>>]
        ELSE LET st == LoadChains([cfg EXCEPT !.chains = <<>>], r.value, 1, writable)
             IN  [st EXCEPT !.ret = ~st.raised]

\* JiggleConfigProperty.from_json.  cfg holds the chains and the custom
\* property; ret is the value returned.
from_json(cfg, json_string, writable) ==
    LET r == json_loads(json_string)
    IN  IF ~r.ok \/ ~isinstance(r.value, "list") \/ ~AllDicts(r.value)
        THEN [cfg EXCEPT !.ret = FALSE]
        ELSE LET st == LoadChains([cfg EXCEPT !.chains = <<>>], r.value, 1, writable)
             IN  [st EXCEPT !.ret = ~st.raised]

\* utils.save_jiggle_config_to_custom_properties.
save_jiggle_config_to_custom_properties(o, cfg, writable) ==
    IF NotArmature(o)
    THEN [cfg EXCEPT !.ret = FALSE]
    ELSE LET st == WriteProperty(cfg, writable)
         IN  [st EXCEPT !.ret = writable]

\* utils.import_jiggle_config_from_dict.
import_jiggle_config_from_dict(o, cfg, config_dict, writable) ==
    IF \/ ~isinstance(config_dict, "dict")
       \/ NotArmature(o)
       \/ ~dict_has(config_dict, "chains")
    THEN [cfg EXCEPT !.ret = FALSE]
    ELSE LET chains_data == dict_get(config_dict, "chains", PyNone)
         IN  IF ~isinstance(chains_data, "list") \/ ~AllDicts(chains_data)
             THEN [cfg EXCEPT !.ret = FALSE]
             ELSE LET st == LoadChains([cfg EXCEPT !.chains = <<>>], chains_data, 1,
                                       writable)
                  IN  IF st.raised
                      THEN [st EXCEPT !.ret = FALSE]
                      ELSE save_jiggle_config_to_custom_properties(o, st, writable)

\* A slip: nothing is written.
force_update_config_NoWrite(o, cfg, writable) == [cfg EXCEPT !.ret = ~NotArmature(o)]

\* ui.force_update_config.
force_update_config(o, cfg, writable) ==
    IF NotArmature(o)
    THEN [cfg EXCEPT !.ret = FALSE]
    ELSE LET st == WriteProperty(cfg, writable)
         IN  [st EXCEPT !.ret = writable]

(***************************************************************************)
(* The armature, the selections and the inputs of the configuration.       *)
(***************************************************************************)
ERROR_NO_CHAIN_SELECTED == "No chain selected"

SUCCESS_ADDED_CHAIN == "Added new jiggle chain"

SUCCESS_REMOVED_CHAIN == "Removed jiggle chain"

SUCCESS_CHAIN_UPDATED(start, end) == "Updated chain from '" \o start \o "' to '" \o end \o "'"

WARNING_CONFIG_SAVE_FAILED == "Added chain, but failed to save config"

\* The string of a name given character by character.
RECURSIVE Str(_)
Str(name) == IF name = <<>> THEN "" ELSE Head(name) \o Str(Tail(name))

\* The armature of the configuration: tail_L with its child tail_L.001 and
\* tail_R with its child tail_R.001.
TailParts == {q \in NameParts : q.stem = <<"t", "a", "i", "l">>}

ConfigRig ==
    Armature([b \in {Str(NameOf(q)) : q \in TailParts} |->
                 LET q == CHOOSE r \in TailParts : Str(NameOf(r)) = b
                 IN  IF q.dup = <<>> THEN NoBone ELSE Str(q.stem \o q.side)])

Tail_L == <<"t", "a", "i", "l", "_", "L">>

Tail_L_001 == <<"t", "a", "i", "l", "_", "L", ".", "0", "0", "1">>

Tail_R == <<"t", "a", "i", "l", "_", "R">>

Tail_R_001 == <<"t", "a", "i", "l", "_", "R", ".", "0", "0", "1">>

\* The selections set_chain_from_selection is run on: nothing, one bone, a
\* bone of each side, a tail from its root down and from its tip up, and
\* both tails whole.
ConfigSelections ==
    {<<>>, <<Tail_L>>, <<Tail_L, Tail_R>>, <<Tail_L, Tail_L_001>>,
     <<Tail_L_001, Tail_L>>, <<Tail_L, Tail_L_001, Tail_R, Tail_R_001>>}

\* The runs of set_chain_from_selection: in edit mode on each of these
\* selections; in object mode, where no edit bone is selected, on none.
SetChainRuns ==
    {<<sel, MODE_EDIT_ARMATURE>> : sel \in ConfigSelections}
        \cup {<< <<>>, MODE_OBJECT>>}

\* selected_bones = self.filter_bones_by_side(selected_bones) and the names
\* of the bones it keeps, for each of them.
FilteredSelections ==
    [sel \in ConfigSelections |->
        LET kept == filter_bones_by_side(sel)
        IN  [k \in 1..Len(kept) |-> Str(kept[k])]]

\* The chain entries and the dicts handed to import_jiggle_config_from_dict.
FullEntry ==
    PyDict(<< <<"start_bone", PyStr("tail_L")>>,
              <<"end_bone", PyStr("tail_L.001")>>,
              <<"stiffness", PyNum(250)>>,
              <<"drag", PyNum(10)>>,
              <<"gravity", PyNum(980)>>,
              <<"radius", PyNum(5)>>,
              <<"extend_end_bone", PyBool(TRUE)>> >>)

ShortEntry ==
    PyDict(<< <<"start_bone", PyStr("tail_L")>>, <<"end_bone", PyStr("tail_L.001")>> >>)

BadTypeEntry ==
    PyDict(<< <<"start_bone", PyStr("tail_L")>>, <<"stiffness", PyStr("stiff")>> >>)

ChainLists ==
    {PyList(<<>>), PyList(<<FullEntry, ShortEntry>>), PyList(<<BadTypeEntry>>),
     PyList(<<FullEntry, PyNum(5)>>)}

ImportInputs ==
    {PyList(<<>>), PyDict(<<>>), PyDict(<< <<"chains", FullEntry>> >>)}
        \cup {PyDict(<< <<"chains", l>> >>) : l \in ChainLists}

\* The texts handed to from_json besides those to_json has written.
JsonInputs ==
    {json_dumps(l) : l \in ChainLists} \cup {json_dumps(FullEntry), <<"[", "{">>}

\* The values a property is set to in the panel.
PanelEdits == {<<"stiffness", PyNum(250)>>}


(***************************************************************************)
(* State.                                                                  *)
(***************************************************************************)
VARIABLES
    obj,            \* context.active_object
    op,             \* the function running or last run
    start_bone,     \* its arguments
    end_bone,
    pc,             \* "idle", "loop" (inside get_bones_in_chain's loop), "done"
    walk,           \* the locals of get_bones_in_chain
    bones,          \* the list get_bones_in_chain returned
    verdict,        \* the pair validate_jiggle_chain returned
    label,          \* the validation row JIGGLE_PT_jiggle_bones.draw shows
    selection,      \* the names of context.selected_bones, in order
    bone_names,     \* the argument of the last call of filter_bones_by_side
    filtered_bones, \* what that call returned
    calls           \* the calls of filter_bones_by_side made, each on the
                    \* result of the one before

chainVars == <<obj, op, start_bone, end_bone, pc, walk, bones, verdict, label>>

filterVars == <<selection, bone_names, filtered_bones, calls>>

VARIABLES
    mode,                 \* context.mode when the rotation chain operator ran
    selected_bone_names,  \* the names of context.selected_bones it read
    at,                   \* where the operator is: "idle", "find_topmost_bone",
                          \* "build_chain_from_top", "build_chain_bfs",
                          \* "constraints", "done"
    frame,                \* the locals of the three chain builders
    constraints,          \* pose bone name -> the list of its constraints
    reports,              \* the calls of self.report, in order
    status                \* what execute returned

rigVars == <<mode, selected_bone_names, at, frame, constraints, reports, status>>

VARIABLES
    chains,              \* obj.jiggle_config.chains
    active_chain_index,  \* obj.jiggle_config.active_chain_index
    custom_property,     \* obj["jiggle_bones_config"]
    call,                \* the last operator or function run on the
                         \* configuration, what it was run on and what it
                         \* returned
    side_filter,         \* selection -> what filter_bones_by_side returns for
                         \* it, worked out once for every selection the
                         \* operator is run on
    clean                \* so far only add_chain, remove_chain,
                         \* set_chain_from_selection, edits of properties and
                         \* successful imports have run, none with a failed
                         \* write of the custom property

configVars == <<chains, active_chain_index, custom_property, call, side_filter, clean>>

vars == <<chainVars, filterVars, rigVars, configVars>>

NoVerdict == <<FALSE, "<not run>">>

NoLabel == [icon |-> "NONE"]

\* Nothing is selected and the filter has not run.
NoSelection ==
    /\ selection = <<>>
    /\ bone_names = <<>>
    /\ filtered_bones = <<>>
    /\ calls = 0

\* No resolver or validator call has been made.
NoCall ==
    /\ op = "none"
    /\ start_bone = ""
    /\ end_bone = ""
    /\ pc = "idle"
    /\ walk = WalkStart(NoBone)
    /\ bones = <<>>
    /\ verdict = NoVerdict
    /\ label = NoLabel

NoFrame ==
    [returned |-> FALSE, i |-> 0, current_bone |-> NoBone, top_bone |-> NoBone,
     chain |-> <<>>, is_linear |-> TRUE, branch_bone |-> NoBone,
     bones_to_visit |-> <<>>]

\* The rotation chain operator has not run and there are no pose bones.
NoOperator ==
    /\ mode = MODE_OBJECT
    /\ selected_bone_names = <<>>
    /\ at = "idle"
    /\ frame = NoFrame
    /\ constraints = <<>>
    /\ reports = <<>>
    /\ status = "none"

NoCallYet ==
    [op |-> "none", result |-> "none", report |-> "", mode |-> "",
     selected_bones |-> <<>>, config_dict |-> PyNone, json_string |-> <<>>,
     save_error |-> FALSE]

\* The configuration is empty, nothing is stored and no operator has run.
NoConfig ==
    /\ chains = <<>>
    /\ active_chain_index = 0
    /\ custom_property = NoProperty
    /\ call = NoCallYet
    /\ side_filter = <<>>
    /\ clean = TRUE

\* The configuration as the functions take and return it.
Config ==
    [chains |-> chains, custom_property |-> custom_property, raised |-> FALSE,
     save_error |-> FALSE, ret |-> TRUE]

InitChain ==
    /\ obj \in Objects
    /\ NoCall
    /\ NoSelection
    /\ NoConfig
    /\ NoOperator

\* A call of get_bones_in_chain, up to its first return or the loop's head.
GetBonesCall(s, e) ==
    /\ pc = "idle"
    /\ op' = "get_bones_in_chain"
    /\ start_bone' = s
    /\ end_bone' = e
    /\ LET entry == ChainEntry(obj, s, e)
       IN  IF entry.returned
           THEN /\ pc' = "done"
                /\ bones' = entry.value
                /\ walk' = WalkStart(NoBone)
           ELSE /\ pc' = "loop"
                /\ bones' = <<>>
                /\ walk' = WalkStart(e)
    /\ verdict' = NoVerdict
    /\ label' = NoLabel
    /\ UNCHANGED <<obj, filterVars, rigVars, configVars>>

\* One pass of the loop of get_bones_in_chain.
GetBonesLoop ==
    /\ pc = "loop"
    /\ LET w == WalkStep(obj, start_bone, walk)
       IN  /\ walk' = w
           /\ pc' = IF w.returned THEN "done" ELSE "loop"
           /\ bones' = IF w.returned THEN w.value ELSE bones
    /\ UNCHANGED <<obj, op, start_bone, end_bone, verdict, label, filterVars, rigVars, configVars>>

\* A call of validate_jiggle_chain.
ValidateCall(s, e) ==
    /\ pc = "idle"
    /\ op' = "validate_jiggle_chain"
    /\ start_bone' = s
    /\ end_bone' = e
    /\ verdict' = validate_jiggle_chain(obj, s, e)
    /\ pc' = "done"
    /\ walk' = WalkStart(NoBone)
    /\ bones' = <<>>
    /\ label' = NoLabel
    /\ UNCHANGED <<obj, filterVars, rigVars, configVars>>

\* The validation row of the panel for an active chain with the bone names
\* s and e (ui.py 546-562).
DrawValidation(s, e) ==
    /\ pc = "idle"
    /\ ~NotArmature(obj)
    /\ op' = "draw"
    /\ start_bone' = s
    /\ end_bone' = e
    /\ pc' = "done"
    /\ walk' = WalkStart(NoBone)
    /\ IF s # "" /\ e # ""
       THEN LET v == validate_jiggle_chain(obj, s, e)
            IN  /\ verdict' = v
                /\ IF v[1]
                   THEN /\ bones' = get_bones_in_chain(obj, s, e)
                        /\ label' = [icon |-> "CHECKMARK", count |-> Len(bones')]
                   ELSE /\ bones' = <<>>
                        /\ label' = [icon |-> "ERROR", text |-> v[2]]
       ELSE /\ verdict' = NoVerdict
            /\ bones' = <<>>
            /\ label' = NoLabel
    /\ UNCHANGED <<obj, filterVars, rigVars, configVars>>

\* The caller has used the result and its frame is gone; the next call can
\* start.
Return ==
    /\ pc = "done"
    /\ pc' = "idle"
    /\ op' = "none"
    /\ start_bone' = ""
    /\ end_bone' = ""
    /\ walk' = WalkStart(NoBone)
    /\ bones' = <<>>
    /\ verdict' = NoVerdict
    /\ label' = NoLabel
    /\ UNCHANGED <<obj, filterVars, rigVars, configVars>>

NextChain ==
    \/ \E s \in ArgNames, e \in ArgNames : GetBonesCall(s, e)
    \/ GetBonesLoop
    \/ \E s \in ArgNames, e \in ArgNames : ValidateCall(s, e)
    \/ \E s \in ArgNames, e \in ArgNames : DrawValidation(s, e)
    \/ Return

SpecChain == InitChain /\ [][NextChain]_vars

\* The loop of get_bones_in_chain runs on the host's main thread with nothing
\* to preempt it: once entered, its next pass is taken.
FairSpecChain == SpecChain /\ WF_vars(GetBonesLoop)

(***************************************************************************)
(* The selection and the filter.                                           *)
(***************************************************************************)
InitFilter ==
    /\ obj = Armature([b \in Bones |-> NoBone])
    /\ NoCall
    /\ NoSelection
    /\ NoConfig
    /\ NoOperator

\* The user selects one more bone in edit mode.
SelectBone(n) ==
    /\ calls = 0
    /\ Len(selection) < MaxSelected
    /\ \A i \in 1..Len(selection) : selection[i] # n
    /\ selection' = Append(selection, n)
    /\ UNCHANGED <<bone_names, filtered_bones, calls, chainVars, rigVars, configVars>>

\* selected_bones = self.filter_bones_by_side(selected_bones) (ui.py 174-177).
FilterSelection ==
    /\ calls = 0
    /\ bone_names' = selection
    /\ filtered_bones' = filter_bones_by_side(selection)
    /\ calls' = 1
    /\ UNCHANGED <<selection, chainVars, rigVars, configVars>>

\* filter_bones_by_side applied to the list it returned.
FilterFiltered ==
    /\ calls = 1
    /\ bone_names' = filtered_bones
    /\ filtered_bones' = filter_bones_by_side(filtered_bones)
    /\ calls' = 2
    /\ UNCHANGED <<selection, chainVars, rigVars, configVars>>

NextFilter ==
    \/ \E n \in SelectableNames : SelectBone(n)
    \/ FilterSelection
    \/ FilterFiltered

SpecFilter == InitFilter /\ [][NextFilter]_vars

(***************************************************************************)
(* The rotation chain operator.                                            *)
(***************************************************************************)
\* execute returns CANCELLED after one report.
Cancel(level, message) ==
    /\ reports' = <<  <<level, message>>  >>
    /\ status' = "CANCELLED"
    /\ at' = "done"

\* execute, from its start to the first test of the while loop of
\* find_topmost_bone (ui.py 287-393).  The context holds the mode m and the
\* selected names sel.
Invoke(sel, m) ==
    /\ at = "idle"
    /\ mode' = m
    /\ selected_bone_names' = sel
    /\ IF NotArmature(obj)
       THEN Cancel("ERROR", ERROR_NO_ARMATURE_SELECTED) /\ frame' = NoFrame
       ELSE IF m # MODE_EDIT_ARMATURE
       THEN Cancel("WARNING", ERROR_NEED_EDIT_MODE) /\ frame' = NoFrame
       ELSE IF Len(sel) < 2
       THEN Cancel("WARNING", ERROR_MIN_BONES_REQUIRED(2)) /\ frame' = NoFrame
       ELSE LET f == TopmostCandidate(obj, sel, 1)
            IN  IF f.returned
                THEN Cancel("ERROR", ERROR_HIERARCHY_INVALID) /\ frame' = NoFrame
                ELSE /\ at' = "find_topmost_bone"
                     /\ frame' = [NoFrame EXCEPT !.i = f.i,
                                                 !.current_bone = f.current_bone]
                     /\ UNCHANGED <<reports, status>>
    /\ UNCHANGED <<obj, constraints, chainVars, filterVars, configVars>>

\* One test of the while loop of find_topmost_bone; on its return execute
\* goes on to the call of build_chain_from_top (ui.py 304-313, 393-405).
FindTopmostLoop ==
    /\ at = "find_topmost_bone"
    /\ LET f == TopmostStep(obj, selected_bone_names, frame)
       IN  IF ~f.returned
           THEN /\ frame' = [frame EXCEPT !.i = f.i, !.current_bone = f.current_bone]
                /\ UNCHANGED <<at, reports, status>>
           ELSE IF f.value = NoBone
           THEN Cancel("ERROR", ERROR_HIERARCHY_INVALID) /\ frame' = NoFrame
           ELSE /\ at' = "build_chain_from_top"
                /\ frame' = [NoFrame EXCEPT !.top_bone = f.value,
                                            !.current_bone = f.value]
                /\ UNCHANGED <<reports, status>>
    /\ UNCHANGED <<obj, mode, selected_bone_names, constraints, chainVars, filterVars, configVars>>

\* One pass of the while loop of build_chain_from_top (ui.py 421-449).
BuildChainLoop ==
    /\ at = "build_chain_from_top"
    /\ LET l == ChainStep(obj, selected_bone_names, frame)
       IN  /\ frame' = l
           /\ at' = IF l.returned
                    THEN "constraints"
                    ELSE IF ~l.is_linear
                         THEN "build_chain_bfs"
                         ELSE "build_chain_from_top"
    /\ UNCHANGED <<obj, mode, selected_bone_names, constraints, reports, status,
                   chainVars, filterVars, configVars>>

\* One pass of the while loop of build_chain_bfs (ui.py 459-471).
BfsLoop ==
    /\ at = "build_chain_bfs"
    /\ LET l == BfsStep(obj, selected_bone_names, frame)
       IN  IF l.bones_to_visit = <<>>
           THEN /\ frame' = [l EXCEPT !.returned = TRUE]
                /\ at' = "constraints"
           ELSE /\ frame' = l
                /\ at' = "build_chain_bfs"
    /\ UNCHANGED <<obj, mode, selected_bone_names, constraints, reports, status,
                   chainVars, filterVars, configVars>>

\* execute from the return of build_chain_from_top to its own return
\* (ui.py 317-378).
AddConstraints ==
    /\ at = "constraints"
    /\ at' = "done"
    /\ IF Len(frame.chain) < 2
       THEN /\ reports' = << <<"ERROR", ERROR_MIN_BONES_REQUIRED(2)>> >>
            /\ status' = "CANCELLED"
            /\ UNCHANGED <<mode, constraints>>
       ELSE LET st == ConstraintLoop(obj, frame.chain, 2,
                          [constraints |-> constraints,
                           reports |-> ChainWarnings(selected_bone_names, frame)])
            IN  /\ constraints' = st.constraints
                /\ reports' = Append(st.reports,
                       <<"INFO", SUCCESS_ROTATION_CHAIN_CREATED(Len(frame.chain))>>)
                /\ status' = "FINISHED"
                /\ mode' = MODE_EDIT_ARMATURE
    /\ UNCHANGED <<obj, selected_bone_names, frame, chainVars, filterVars, configVars>>

\* The operator is run again on the same armature.
Again ==
    /\ at = "done"
    /\ at' = "idle"
    /\ frame' = NoFrame
    /\ reports' = <<>>
    /\ status' = "none"
    /\ selected_bone_names' = <<>>
    /\ UNCHANGED <<obj, mode, constraints, chainVars, filterVars, configVars>>

Modes == {MODE_EDIT_ARMATURE, MODE_OBJECT}

\* The pose bones of an armature without constraints.
NoConstraints(o) == IF NotArmature(o) THEN <<>> ELSE [b \in DOMAIN o.parent |-> <<>>]

RigObjects == {NoObject, MeshObject} \cup {Armature(p) : p \in RigParentMaps}

InitRig ==
    /\ obj \in RigObjects
    /\ mode = MODE_OBJECT
    /\ selected_bone_names = <<>>
    /\ at = "idle"
    /\ frame = NoFrame
    /\ constraints = NoConstraints(obj)
    /\ reports = <<>>
    /\ status = "none"
    /\ NoCall
    /\ NoSelection
    /\ NoConfig

NextRig ==
    \/ /\ at = "idle"
       /\ \E sel \in ListsOf(EditBones(obj), MaxSelected), m \in Modes : Invoke(sel, m)
    \/ FindTopmostLoop
    \/ BuildChainLoop
    \/ BfsLoop
    \/ AddConstraints

SpecRig == InitRig /\ [][NextRig]_vars

\* execute runs on the host's main thread without suspending: a loop that
\* can make another pass makes it.
FairSpecRig ==
    /\ SpecRig
    /\ WF_vars(FindTopmostLoop)
    /\ WF_vars(BuildChainLoop)
    /\ WF_vars(BfsLoop)
    /\ WF_vars(AddConstraints)

(***************************************************************************)
(* The rotation chain operator run again and again on one armature whose   *)
(* pose bones have constraints already.                                    *)
(***************************************************************************)
\* A COPY_ROTATION constraint on the armature itself that the user has set
\* up differently.
OwnConstraint(o) ==
    [new_constraint(CONSTRAINT_TYPE) EXCEPT !.target = o, !.influence = 50]

\* A COPY_ROTATION constraint on another object, and a constraint of another
\* type on the armature.
OtherTarget == [new_constraint(CONSTRAINT_TYPE) EXCEPT !.target = MeshObject]

OtherType(o) == [new_constraint("COPY_LOCATION") EXCEPT !.target = o]

\* The constraint lists a pose bone starts with: at most one COPY_ROTATION
\* constraint on the armature in each.
ConstraintLists(o) ==
    {<<>>, <<OwnConstraint(o)>>, <<OtherTarget, OwnConstraint(o)>>, <<OtherType(o)>>}

\* The armatures run again: three bones, in a line or forked.
RerunParentMaps ==
    {p \in RigParentMaps : DOMAIN p = RigPrefix(3) /\ p[RigOrder[1]] = NoBone}

\* The pose bones: those of the armature, the last one left out or not.
PoseBoneSets(o) == {DOMAIN o.parent, DOMAIN o.parent \ {RigOrder[3]}}

InitRerun ==
    /\ obj \in {Armature(p) : p \in RerunParentMaps}
    /\ mode = MODE_OBJECT
    /\ selected_bone_names = <<>>
    /\ at = "idle"
    /\ frame = NoFrame
    /\ \E S \in PoseBoneSets(obj) : constraints \in [S -> ConstraintLists(obj)]
    /\ reports = <<>>
    /\ status = "none"
    /\ NoCall
    /\ NoSelection
    /\ NoConfig

NextRerun ==
    \/ NextRig
    \/ Again

SpecRerun == InitRerun /\ [][NextRerun]_vars

(***************************************************************************)
(* The jiggle configuration of the active object and its operators.        *)
(***************************************************************************)
\* An operator or function has returned st, having read and reported what
\* c says; listed tells whether it is one of the operations that keep the
\* custom property up to date.
Returned(st, c, listed) ==
    /\ chains' = st.chains
    /\ custom_property' = st.custom_property
    /\ call' = [c EXCEPT !.save_error = st.save_error]
    /\ clean' = (clean /\ listed /\ ~st.save_error)
    /\ UNCHANGED <<obj, side_filter, chainVars, filterVars, rigVars>>

\* JIGGLE_OT_add_chain.execute.
AddChain(writable) ==
    /\ ~call.save_error
    /\ Len(chains) < MaxChains
    /\ IF NotArmature(obj)
       THEN /\ Returned(Config, [NoCallYet EXCEPT !.op = "add_chain",
                                                  !.result = "CANCELLED",
                                                  !.report = ERROR_NO_ARMATURE_SELECTED],
                        TRUE)
            /\ UNCHANGED active_chain_index
       ELSE LET st == force_update_config(obj,
                          [Config EXCEPT !.chains = Append(chains, new_chain)], writable)
            IN  /\ active_chain_index' = Len(st.chains) - 1
                /\ Returned(st, [NoCallYet EXCEPT !.op = "add_chain",
                                                  !.result = "FINISHED",
                                                  !.report = IF st.ret
                                                             THEN SUCCESS_ADDED_CHAIN
                                                             ELSE WARNING_CONFIG_SAVE_FAILED],
                            TRUE)

\* chains.remove(index), the index counted from 0.
remove(s, index) == SubSeq(s, 1, index) \o SubSeq(s, index + 2, Len(s))

\* A slip: the index stays where it was.
index_after_remove_Same(index) == index

\* max(0, config.active_chain_index - 1)
index_after_remove(index) == IF index - 1 > 0 THEN index - 1 ELSE 0

\* JIGGLE_OT_remove_chain.execute.
RemoveChain(writable) ==
    /\ ~call.save_error
    /\ IF NotArmature(obj)
       THEN /\ Returned(Config, [NoCallYet EXCEPT !.op = "remove_chain",
                                                  !.result = "CANCELLED",
                                                  !.report = ERROR_NO_ARMATURE_SELECTED],
                        TRUE)
            /\ UNCHANGED active_chain_index
       ELSE IF 0 <= active_chain_index /\ active_chain_index < Len(chains)
       THEN LET st == force_update_config(obj,
                          [Config EXCEPT !.chains = remove(chains, active_chain_index)],
                          writable)
            IN  /\ active_chain_index' = index_after_remove(active_chain_index)
                /\ Returned(st, [NoCallYet EXCEPT !.op = "remove_chain",
                                                  !.result = "FINISHED",
                                                  !.report = IF st.ret
                                                             THEN SUCCESS_REMOVED_CHAIN
                                                             ELSE "Removed chain, but failed to save config"],
                            TRUE)
       ELSE /\ Returned(Config, [NoCallYet EXCEPT !.op = "remove_chain",
                                                  !.result = "FINISHED"], TRUE)
            /\ UNCHANGED active_chain_index

\* A slip: the names that failed validation are left in the chain.
reset_invalid_chain_Keeps(cfg, i, writable) == cfg

\* chain.start_bone = ""; chain.end_bone = "" (ui.py 194-195).
reset_invalid_chain(cfg, i, writable) ==
    SetChainProperty(SetChainProperty(cfg, i, "start_bone", PyStr(""), writable),
                     i, "end_bone", PyStr(""), writable)

\* JIGGLE_OT_set_chain_from_selection.execute in the mode m with the bones
\* sel selected.
SetChainFromSelection(sel, m, writable) ==
    /\ ~call.save_error
    /\ LET c == [NoCallYet EXCEPT !.op = "set_chain_from_selection",
                                  !.result = "CANCELLED",
                                  !.mode = m, !.selected_bones = sel]
           i == active_chain_index + 1
           selected_bones == side_filter[sel]
       IN  IF NotArmature(obj)
           THEN Returned(Config, [c EXCEPT !.report = ERROR_NO_ARMATURE_SELECTED], TRUE)
           ELSE IF active_chain_index < 0 \/ active_chain_index >= Len(chains)
           THEN Returned(Config, [c EXCEPT !.report = ERROR_NO_CHAIN_SELECTED], TRUE)
           ELSE IF m # MODE_EDIT_ARMATURE
           THEN Returned(Config, [c EXCEPT !.report = ERROR_NEED_EDIT_MODE], TRUE)
           ELSE IF Len(selected_bones) < 2
           THEN Returned(Config, [c EXCEPT !.report = ERROR_MIN_BONES_REQUIRED(2)], TRUE)
           ELSE LET named ==
                        SetChainProperty(
                            SetChainProperty(Config, i, "start_bone",
                                             PyStr(selected_bones[1]), writable),
                            i, "end_bone", PyStr(selected_bones[Len(selected_bones)]),
                            writable)
                    v == validate_jiggle_chain(obj, named.chains[i].start_bone,
                                               named.chains[i].end_bone)
                IN  IF ~v[1]
                    THEN Returned(reset_invalid_chain(named, i, writable),
                                  [c EXCEPT !.report = "Invalid chain: " \o v[2]], TRUE)
                    ELSE Returned(force_update_config(obj, named, writable),
                                  [c EXCEPT !.result = "FINISHED",
                                            !.report = SUCCESS_CHAIN_UPDATED(
                                                selected_bones[1],
                                                selected_bones[Len(selected_bones)])],
                                  TRUE)
    /\ UNCHANGED active_chain_index

\* A property of the active chain is set in the panel, which shows the
\* active chain of an armature when there is one (ui.py 524-525).
EditProperty(f, value, writable) ==
    /\ ~call.save_error
    /\ ~NotArmature(obj)
    /\ 0 <= active_chain_index /\ active_chain_index < Len(chains)
    /\ Returned(SetChainProperty(Config, active_chain_index + 1, f, value, writable),
                [NoCallYet EXCEPT !.op = "edit", !.result = "FINISHED"], TRUE)
    /\ UNCHANGED active_chain_index

\* A call of import_jiggle_config_from_dict(obj, config_dict).
ImportFromDict(config_dict, writable) ==
    /\ ~call.save_error
    /\ LET st == import_jiggle_config_from_dict(obj, Config, config_dict, writable)
       IN  Returned(st, [NoCallYet EXCEPT !.op = "import_jiggle_config_from_dict",
                                          !.result = IF st.ret THEN "True" ELSE "False",
                                          !.config_dict = config_dict],
                    st.ret)
    /\ UNCHANGED active_chain_index

\* A call of obj.jiggle_config.from_json(json_string).
FromJson(json_string, writable) ==
    /\ ~call.save_error
    /\ ~NotArmature(obj)
    /\ LET st == from_json(Config, json_string, writable)
       IN  Returned(st, [NoCallYet EXCEPT !.op = "from_json",
                                          !.result = IF st.ret THEN "True" ELSE "False",
                                          !.json_string = json_string],
                    FALSE)
    /\ UNCHANGED active_chain_index

InitConfig ==
    /\ obj \in {ConfigRig, MeshObject}
    /\ chains = <<>>
    /\ active_chain_index = 0
    /\ custom_property = NoProperty
    /\ call = NoCallYet
    /\ side_filter = FilteredSelections
    /\ clean = TRUE
    /\ NoCall
    /\ NoSelection
    /\ NoOperator

\* The operators of the panel.  The chain list is only changed by add_chain
\* and remove_chain.
NextPanel ==
    \/ \E writable \in BOOLEAN : AddChain(writable)
    \/ \E writable \in BOOLEAN : RemoveChain(writable)
    \/ \E run \in SetChainRuns, writable \in BOOLEAN :
           SetChainFromSelection(run[1], run[2], writable)
    \/ \E e \in PanelEdits, writable \in BOOLEAN : EditProperty(e[1], e[2], writable)

SpecPanel == InitConfig /\ [][NextPanel]_vars

\* The operations that write the custom property: the operators of the
\* panel and import_jiggle_config_from_dict.
NextConfig ==
    \/ NextPanel
    \/ \E config_dict \in ImportInputs, writable \in BOOLEAN :
           ImportFromDict(config_dict, writable)

SpecConfig == InitConfig /\ [][NextConfig]_vars

\* The two loaders run on configurations that add_chain, edits and earlier
\* loads have made.
NextLoad ==
    \/ \E writable \in BOOLEAN : AddChain(writable)
    \/ \E e \in PanelEdits, writable \in BOOLEAN : EditProperty(e[1], e[2], writable)
    \/ \E config_dict \in ImportInputs, writable \in BOOLEAN :
           ImportFromDict(config_dict, writable)
    \/ \E json_string \in JsonInputs \cup {to_json(chains)}, writable \in BOOLEAN :
           FromJson(json_string, writable)

SpecLoad == InitConfig /\ [][NextLoad]_vars

(***************************************************************************)
(* The hierarchy as the claims speak of it, defined on the parent          *)
(* references alone.                                                       *)
(***************************************************************************)
\* The bones reached from the bones of S by following parent references any
\* number of times, S included.
RECURSIVE Reach(_, _)
Reach(p, S) ==
    LET T == S \cup ({p[b] : b \in S} \ {NoBone})
    IN  IF T = S THEN S ELSE Reach(p, T)

\* The bones above b.
ProperAncestors(p, b) == Reach(p, {p[b]} \ {NoBone})

\* s is e or an ancestor of e.
IsAncestorOrSelf(p, s, e) == s \in Reach(p, {e})

\* A forest: no bone is its own ancestor.
WellFormed(p) == \A b \in DOMAIN p : b \notin ProperAncestors(p, b)

\* Following parent references from e never comes to a root.
ReachesCycle(p, e) == \A b \in Reach(p, {e}) : p[b] # NoBone

\* The depth of a bone of a forest: the number of bones above it.
Depth(p, b) == Cardinality(ProperAncestors(p, b))

\* path runs from s to e, each element the child of the one before.
IsPath(p, path, s, e) ==
    /\ Len(path) >= 1
    /\ path[1] = s
    /\ path[Len(path)] = e
    /\ \A i \in 2..Len(path) : p[path[i]] = path[i - 1]

\* get_bones_in_chain has returned for two bones of an armature.
ResolvedBones ==
    /\ op = "get_bones_in_chain"
    /\ pc = "done"
    /\ ~NotArmature(obj)
    /\ start_bone \in Bones
    /\ end_bone \in Bones

(***************************************************************************)
(* The resolver.                                                           *)
(***************************************************************************)
\* C1: in a well-formed forest, for existing bones s and e with s an
\* ancestor of e or e itself, get_bones_in_chain returns a sequence that
\* starts with s, ends with e, has depth(e) - depth(s) + 1 elements, and in
\* which every element after the first has the one before as its parent.
C1_AncestorChain ==
    (/\ ResolvedBones
     /\ WellFormed(obj.parent)
     /\ IsAncestorOrSelf(obj.parent, start_bone, end_bone))
    => /\ IsPath(obj.parent, bones, start_bone, end_bone)
       /\ Len(bones) = Depth(obj.parent, end_bone) - Depth(obj.parent, start_bone) + 1

\* The resolver has returned the three-bone chain of a forest.
C1_Witness ==
    /\ ResolvedBones
    /\ WellFormed(obj.parent)
    /\ IsAncestorOrSelf(obj.parent, start_bone, end_bone)
    /\ Len(walk.chain) = 3
    /\ bones = <<"spine", "spine.001", "spine.002">>

\* C2: in a well-formed forest, for bones s and e with s neither e nor an
\* ancestor of e, get_bones_in_chain returns the empty list.
C2_UnrelatedEmpty ==
    (/\ ResolvedBones
     /\ WellFormed(obj.parent)
     /\ ~IsAncestorOrSelf(obj.parent, start_bone, end_bone))
    => bones = <<>>

\* The walk went from end_bone up to a root without meeting start_bone,
\* which lies below end_bone.
C2_Witness ==
    /\ ResolvedBones
    /\ WellFormed(obj.parent)
    /\ ~IsAncestorOrSelf(obj.parent, start_bone, end_bone)
    /\ IsAncestorOrSelf(obj.parent, end_bone, start_bone)
    /\ walk.current_bone = NoBone
    /\ Len(walk.chain) >= 2

\* C3 as stated: when following parent references from end_bone reaches a
\* cycle, get_bones_in_chain returns the empty list.
C3_CyclicAlwaysEmpty ==
    (/\ op = "get_bones_in_chain"
     /\ pc = "done"
     /\ ~NotArmature(obj)
     /\ end_bone \in Bones
     /\ ReachesCycle(obj.parent, end_bone))
    => bones = <<>>

\* The walk of a call on cyclic parent data.
CyclicWalk ==
    /\ op = "get_bones_in_chain"
    /\ ~NotArmature(obj)
    /\ end_bone \in Bones
    /\ ReachesCycle(obj.parent, end_bone)

\* C3, amended: when following parent references from end_bone reaches a
\* cycle, get_bones_in_chain terminates (every pass of the loop that does not
\* return visits a bone not visited before); it returns the empty list
\* unless start_bone is itself reached from end_bone by parent references,
\* and then it returns the path from start_bone to end_bone.
C3_CyclicTerminates ==
    /\ [](CyclicWalk /\ pc = "loop" => <>(pc = "done"))
    /\ [](CyclicWalk =>
            /\ walk.visited \subseteq Bones
            /\ Len(walk.chain) = Cardinality(walk.visited))
    /\ [](CyclicWalk /\ pc = "done" =>
            IF start_bone \in Reach(obj.parent, {end_bone})
            THEN IsPath(obj.parent, bones, start_bone, end_bone)
            ELSE bones = <<>>)

\* The cycle guard has ended a walk: the bone to visit next was visited.
C3_Witness ==
    /\ CyclicWalk
    /\ pc = "done"
    /\ walk.current_bone \in walk.visited
    /\ Len(walk.chain) >= 2
    /\ bones = <<>>

Validated == op = "validate_jiggle_chain" /\ pc = "done"

\* The two names are non-empty names of bones of the armature obj.
ExistingPair(s, e) ==
    /\ ~NotArmature(obj)
    /\ s # ""
    /\ e # ""
    /\ s \in Bones
    /\ e \in Bones

\* The first of the six checks that the arguments fail, by the order the
\* claim gives; 0 when they pass all six.
FirstFailedCheck(o, s, e) ==
    IF NotArmature(o) THEN 1
    ELSE IF s = "" THEN 2
    ELSE IF e = "" THEN 3
    ELSE IF s \notin Bones THEN 4
    ELSE IF e \notin Bones THEN 5
    ELSE IF ~IsAncestorOrSelf(o.parent, s, e) THEN 6
    ELSE 0

\* The message the claim gives the k-th check, naming the bones.
ExpectedMessage(k, s, e) ==
    CASE k = 1 -> "Object is not an armature"
      [] k = 2 -> "Start bone name is empty"
      [] k = 3 -> "End bone name is empty"
      [] k = 4 -> "Start bone '" \o s \o "' not found in armature"
      [] k = 5 -> "End bone '" \o e \o "' not found in armature"
      [] k = 6 -> "Cannot find chain from '" \o s \o "' to '" \o e \o "'"

\* C4: the checks come in a fixed order and the first failing one decides
\* the result: not an armature, empty start name, empty end name, start
\* bone missing, end bone missing, no chain between them.  Each failure
\* returns False with a message that no other of the six failures gives,
\* and the not-found and no-chain messages name the bones.
C4_OrderedChecks ==
    Validated =>
        LET k == FirstFailedCheck(obj, start_bone, end_bone)
        IN  k # 0 =>
              /\ verdict = <<FALSE, ExpectedMessage(k, start_bone, end_bone)>>
              /\ \A o2 \in {obj, NoObject, MeshObject}, s2 \in ArgNames, e2 \in ArgNames :
                     FirstFailedCheck(o2, s2, e2) \notin {0, k}
                         => validate_jiggle_chain(o2, s2, e2)[2] # verdict[2]

\* Both names were empty and the start name's check, the earlier one,
\* decided the result.
C4_Witness ==
    /\ Validated
    /\ ~NotArmature(obj)
    /\ start_bone = ""
    /\ end_bone = ""
    /\ verdict = <<FALSE, "Start bone name is empty">>

\* C5: validate_jiggle_chain returns (True, "") exactly when the object is
\* an armature, both names are non-empty, both bones exist and start is end
\* or an ancestor of end; get_bones_in_chain on the same arguments then
\* returns the non-empty path from start to end.
C5_ValidIffChain ==
    /\ Validated =>
           (verdict = <<TRUE, "">>
              <=> (/\ ExistingPair(start_bone, end_bone)
                   /\ IsAncestorOrSelf(obj.parent, start_bone, end_bone)))
    /\ Validated => (verdict[1] <=> verdict = <<TRUE, "">>)
    /\ (op = "draw" /\ pc = "done" /\ verdict[1]) =>
           /\ IsPath(obj.parent, bones, start_bone, end_bone)
           /\ label = [icon |-> "CHECKMARK", count |-> Len(bones)]
    /\ (/\ op = "draw"
        /\ pc = "done"
        /\ start_bone = "spine"
        /\ end_bone = "spine.002"
        /\ obj.parent["spine.002"] = "spine.001"
        /\ obj.parent["spine.001"] = "spine")
       => (verdict = <<TRUE, "">> /\ bones = <<"spine", "spine.001", "spine.002">>)

\* The panel has validated spine -> spine.002 and shown its three bones.
C5_Witness ==
    /\ op = "draw"
    /\ pc = "done"
    /\ start_bone = "spine"
    /\ end_bone = "spine.002"
    /\ verdict = <<TRUE, "">>
    /\ bones = <<"spine", "spine.001", "spine.002">>
    /\ label.icon = "CHECKMARK"

(***************************************************************************)
(* The side-suffix filter.                                                 *)
(***************************************************************************)
\* C6: filter_bones_by_side is idempotent: applied to its own result it
\* returns that result unchanged.
C6_FilterIdempotent == calls = 2 => filtered_bones = bone_names

\* The first call narrowed a four-name selection to one side and the second
\* call was made on the narrowed list.
C6_Witness ==
    /\ calls = 2
    /\ Len(selection) = 4
    /\ 2 <= Len(bone_names)
    /\ Len(bone_names) < Len(selection)
    /\ filtered_bones = bone_names

\* C7: filter_bones_by_side never returns an empty sequence for a non-empty
\* list.
C7_FilterNeverEmpties == (calls >= 1 /\ bone_names # <<>>) => filtered_bones # <<>>

\* A call dropped names from its list and still returned some.
C7_Witness ==
    /\ calls = 1
    /\ Len(bone_names) >= 2
    /\ Len(filtered_bones) < Len(bone_names)
    /\ filtered_bones # <<>>

\* The base and the side of a name, as _parse_bone_side gives them.
BaseOf(n) == parse_bone_side(n)[1]

SideOf(n) == parse_bone_side(n)[2]

\* Another name of the list has the first name's base and another,
\* non-empty side.
MirroredPairIn(names) ==
    \E i \in 2..Len(names) :
        /\ BaseOf(names[i]) = BaseOf(names[1])
        /\ SideOf(names[i]) # <<>>
        /\ SideOf(names[i]) # SideOf(names[1])

\* C8: the input comes back unchanged when the first name has no side or no
\* other name has the first name's base with a different non-empty side;
\* otherwise the result is, in input order, the names whose side is the
\* first name's side, or is empty, or whose base is not the first name's.
\* [tail_L, tail_L.001, tail_R, tail_R.001] gives [tail_L, tail_L.001].
C8_FilterResult ==
    calls >= 1 =>
        /\ IF bone_names = <<>> \/ SideOf(bone_names[1]) = <<>> \/ ~MirroredPairIn(bone_names)
           THEN filtered_bones = bone_names
           ELSE filtered_bones =
                    SelectSeq(bone_names,
                              LAMBDA n : \/ SideOf(n) = SideOf(bone_names[1])
                                         \/ SideOf(n) = <<>>
                                         \/ BaseOf(n) # BaseOf(bone_names[1]))
        /\ bone_names = <<Tail_L, Tail_L_001, Tail_R, Tail_R_001>>
               => filtered_bones = <<Tail_L, Tail_L_001>>

\* The selection of the scenario has been filtered to its left side.
C8_Witness ==
    /\ calls = 1
    /\ bone_names = <<Tail_L, Tail_L_001, Tail_R, Tail_R_001>>
    /\ filtered_bones = <<Tail_L, Tail_L_001>>

\* The parts a name of the selection was written from.
PartsOf(n) == CHOOSE parts \in NameParts : NameOf(parts) = n

Arm_L == <<"a", "r", "m", ".", "L">>

Arm_R == <<"a", "r", "m", ".", "R">>

\* C9: _parse_bone_side strips only a trailing duplicate suffix and then
\* recognises the three conventions: a name written as a base, a side suffix
\* (.L .R _L _R _left _right, in any letter case) and perhaps a duplicate
\* suffix parses to that base and a non-empty side, so that [arm.L, arm.R]
\* is narrowed to [arm.L].
C9_AllConventionsParsed ==
    calls >= 1 =>
        /\ \A i \in 1..Len(bone_names) :
               LET parts == PartsOf(bone_names[i])
               IN  parts.side # <<>> =>
                       /\ SideOf(bone_names[i]) # <<>>
                       /\ SideOf(bone_names[i]) = str_upper(Tail(parts.side))
                       /\ BaseOf(bone_names[i]) = str_lower(parts.stem)
        /\ bone_names = <<Arm_L, Arm_R>> => filtered_bones = <<Arm_L>>

(***************************************************************************)
(* The hierarchy chain builder.                                            *)
(***************************************************************************)
Range(s) == {s[i] : i \in 1..Len(s)}

\* b is a bone of the skeleton and no bone above it is selected.
IsTopmost(p, sel, b) ==
    /\ b \in DOMAIN p
    /\ ProperAncestors(p, b) \cap Range(sel) = {}

\* The positions of the selection that hold such a bone.
TopmostPositions(p, sel) == {i \in 1..Len(sel) : IsTopmost(p, sel, sel[i])}

Least(S) == CHOOSE x \in S : \A y \in S : x <= y

\* execute ran on an armature in edit mode with two names or more, so
\* find_topmost_bone was called.
CalledFindTopmost ==
    /\ at # "idle"
    /\ ~NotArmature(obj)
    /\ mode = MODE_EDIT_ARMATURE
    /\ Len(selected_bone_names) >= 2

\* execute returned after find_topmost_bone gave no result.
HierarchyInvalid ==
    /\ at = "done"
    /\ reports = << <<"ERROR", ERROR_HIERARCHY_INVALID>> >>

\* C11: when find_topmost_bone returns a bone, it is the bone at the first
\* position of the selection whose bone exists in the skeleton and has no
\* selected bone above it; when no position holds such a bone (the selected
\* bones form a parent cycle, say) and execute has returned, it has reported
\* ERROR_HIERARCHY_INVALID and returned CANCELLED with no constraint on any
\* pose bone; and it reports that error in no other case.
C11_TopmostBone ==
    CalledFindTopmost =>
        LET T == TopmostPositions(obj.parent, selected_bone_names)
        IN  /\ frame.top_bone # NoBone =>
                /\ T # {}
                /\ frame.top_bone = selected_bone_names[Least(T)]
            /\ (at = "done" /\ T = {}) =>
                /\ HierarchyInvalid
                /\ status = "CANCELLED"
                /\ constraints = NoConstraints(obj)
            /\ HierarchyInvalid => T = {}

\* Two bones that are each other's parent are selected, and execute has
\* returned.
C11_Witness ==
    /\ CalledFindTopmost
    /\ HierarchyInvalid
    /\ selected_bone_names = <<"B", "A">>
    /\ {"A", "B"} \subseteq DOMAIN obj.parent
    /\ obj.parent["A"] = "B"
    /\ obj.parent["B"] = "A"

\* The selected children of b.
SelectedChildren(p, sel, b) == {c \in DOMAIN p : p[c] = b /\ c \in Range(sel)}

\* The bones of the descent from the bones of S: a bone with exactly one
\* selected child is followed by that child.
RECURSIVE Descent(_, _, _)
Descent(p, sel, S) ==
    LET T == S \cup UNION {SelectedChildren(p, sel, b) :
                              b \in {d \in S : Cardinality(SelectedChildren(p, sel, d)) = 1}}
    IN  IF T = S THEN S ELSE Descent(p, sel, T)

\* The bones reached from the bones of S through selected children.
RECURSIVE SelectedBelow(_, _, _)
SelectedBelow(p, sel, S) ==
    LET T == S \cup UNION {SelectedChildren(p, sel, b) : b \in S}
    IN  IF T = S THEN S ELSE SelectedBelow(p, sel, T)

\* build_chain_from_top has returned to execute.
BuiltChain == at \in {"constraints", "done"} /\ frame.returned

\* chain lists bones level by level below top, none twice.
BreadthFirst(p, chain, top) ==
    /\ chain # <<>>
    /\ chain[1] = top
    /\ \A i, j \in 1..Len(chain) : i < j =>
           /\ chain[i] # chain[j]
           /\ Depth(p, chain[i]) <= Depth(p, chain[j])

\* C12: build_chain_from_top returns is_linear = True and branch_bone = None
\* exactly when no bone of the descent from the topmost bone has more than
\* one selected child; otherwise it returns is_linear = False, the one bone
\* of the descent with more than one selected child as branch_bone, and the
\* breadth-first chain from the topmost bone.
C12_LinearOrBranch ==
    BuiltChain =>
        LET p == obj.parent
            sel == selected_bone_names
            branching == {d \in Descent(p, sel, {frame.top_bone}) :
                              Cardinality(SelectedChildren(p, sel, d)) > 1}
        IN  /\ frame.is_linear <=> branching = {}
            /\ frame.is_linear => frame.branch_bone = NoBone
            /\ ~frame.is_linear =>
                   /\ branching = {frame.branch_bone}
                   /\ BreadthFirst(p, frame.chain, frame.top_bone)
                   /\ SelectedChildren(p, sel, frame.branch_bone) \subseteq Range(frame.chain)

\* A, B and C are selected, B and C are children of A, and the chain is built:
\* the branch is at A.
C12_Witness ==
    /\ BuiltChain
    /\ Range(selected_bone_names) = {"A", "B", "C"}
    /\ {"A", "B", "C"} \subseteq DOMAIN obj.parent
    /\ obj.parent["B"] = "A"
    /\ obj.parent["C"] = "A"
    /\ ~frame.is_linear
    /\ frame.branch_bone = "A"
    /\ Range(frame.chain) = {"A", "B", "C"}

\* The selected bones below top.
SelectedDescendants(p, sel, top) ==
    {b \in Range(sel) \cap DOMAIN p : top \in ProperAncestors(p, b)}

\* C13 as stated: after the breadth-first fallback the chain has every
\* selected bone that is a descendant of the topmost bone.
C13_AllSelectedDescendants ==
    (BuiltChain /\ ~frame.is_linear) =>
        SelectedDescendants(obj.parent, selected_bone_names, frame.top_bone)
            \subseteq Range(frame.chain)

\* C13: after the breadth-first fallback the chain has the topmost bone and
\* exactly the selected bones joined to it by selected bones only; a selected
\* descendant below a bone that is not selected is left out, and execute
\* names it in its warning of the bones not in the chain.
C13_SelectedBelowSelected ==
    (BuiltChain /\ ~frame.is_linear) =>
        LET p == obj.parent
            sel == selected_bone_names
            left_out == SelectedDescendants(p, sel, frame.top_bone) \ Range(frame.chain)
        IN  /\ Range(frame.chain) = SelectedBelow(p, sel, {frame.top_bone})
            /\ \A b \in left_out :
                   \E a \in ProperAncestors(p, b) \ Range(sel) :
                       frame.top_bone \in ProperAncestors(p, a)
            /\ (at = "done" /\ left_out # {}) =>
                   \E k \in 1..Len(reports) :
                       /\ reports[k][1] = "WARNING"
                       /\ reports[k][2] = WARNING_BONES_NOT_IN_CHAIN(
                              Join(missing_bones(sel, frame.chain)))
                       /\ left_out \subseteq Range(missing_bones(sel, frame.chain))

\* B and C, children of A, are selected with A, and so is E below the bone D
\* that is not selected: E is left out of the chain.
C13_Witness ==
    /\ BuiltChain
    /\ at = "done"
    /\ ~frame.is_linear
    /\ frame.top_bone = "A"
    /\ Range(selected_bone_names) = {"A", "B", "C", "E"}
    /\ "E" \in DOMAIN obj.parent
    /\ "D" \in ProperAncestors(obj.parent, "E")
    /\ "A" \in ProperAncestors(obj.parent, "E")
    /\ "E" \notin Range(frame.chain)

\* The COPY_ROTATION constraints of the list cs that target o.
OwnConstraints(cs, o) ==
    {k \in 1..Len(cs) : cs[k].type = CONSTRAINT_TYPE /\ cs[k].target = o}

\* execute has returned FINISHED for the chain in frame.chain.
FinishedChain == at = "done" /\ status = "FINISHED"

\* C17: on armatures whose pose bones start with at most one COPY_ROTATION
\* constraint on the armature each, however often the operator is run: no
\* pose bone ever has two such constraints; when execute has finished on a
\* chain, every bone of the chain after the first that has a pose bone has
\* exactly one, with the bone before it in the chain as subtarget, LOCAL
\* owner and target space and influence 1.0; and the constraint loop leaves
\* the constraints of the first bone of the chain, and of every bone outside
\* the chain, as they were.
C17_OneConstraintPerBone ==
    /\ [](\A b \in DOMAIN constraints :
              Cardinality(OwnConstraints(constraints[b], obj)) <= 1)
    /\ [](FinishedChain =>
              \A i \in 2..Len(frame.chain) :
                  frame.chain[i] \in DOMAIN constraints =>
                      \E k \in 1..Len(constraints[frame.chain[i]]) :
                          LET c == constraints[frame.chain[i]][k]
                          IN  /\ OwnConstraints(constraints[frame.chain[i]], obj) = {k}
                              /\ c.subtarget = frame.chain[i - 1]
                              /\ c.owner_space = "LOCAL"
                              /\ c.target_space = "LOCAL"
                              /\ c.influence = 100)
    /\ [][\A b \in DOMAIN constraints :
              (\A i \in 2..Len(frame.chain) : frame.chain[i] # b) =>
                  constraints'[b] = constraints[b]]_vars

\* The operator has finished on a line of three bones.  B had a constraint
\* on another object and a COPY_ROTATION constraint on the armature set up
\* differently: the latter now copies from A, and B has no further one.
C17_Witness ==
    /\ FinishedChain
    /\ frame.chain = <<"A", "B", "C">>
    /\ "B" \in DOMAIN constraints
    /\ constraints["B"] =
           <<OtherTarget,
             [new_constraint(CONSTRAINT_TYPE) EXCEPT
                  !.target = obj, !.subtarget = "A",
                  !.owner_space = "LOCAL", !.target_space = "LOCAL"]>>
    /\ "A" \in DOMAIN constraints
    /\ constraints["A"] = <<OtherType(obj)>>

(***************************************************************************)
(* The configuration as the claims speak of it.                            *)
(***************************************************************************)
ChainFields ==
    {"start_bone", "end_bone", "stiffness", "drag", "gravity", "radius",
     "extend_end_bone"}

\* The chain lists a and b have the same length and, position by position,
\* the same value in every field.
SameChains(a, b) ==
    /\ Len(a) = Len(b)
    /\ \A i \in 1..Len(a) : \A f \in ChainFields : a[i][f] = b[i][f]

IsArmature(o) == o.type = "ARMATURE"

\* C14: whenever from_json is handed the text to_json makes of the current
\* chain list, it returns True and the chain list it leaves has the same
\* length and order and every field of every chain as before.
C14_RoundTrip ==
    [][(call'.op = "from_json" /\ call'.json_string = to_json(chains))
          => (call'.result = "True" /\ SameChains(chains', chains))]_vars

\* from_json has loaded the text of two chains, the first with no field at
\* its default and the second unlike it.
C14_Witness ==
    /\ call.op = "from_json"
    /\ call.result = "True"
    /\ call.json_string = to_json(chains)
    /\ Len(chains) = 2
    /\ chains[1] = [start_bone |-> "tail_L", end_bone |-> "tail_L.001",
                    stiffness |-> 250, drag |-> 10, gravity |-> 980, radius |-> 5,
                    extend_end_bone |-> TRUE]
    /\ chains[2].stiffness = DEFAULT_STIFFNESS
    /\ ~chains[2].extend_end_bone

\* The value v is no list, or a list with an entry that is no dict.
NotAListOfDicts(v) ==
    \/ v.kind # "list"
    \/ \E i \in 1..Len(v.items) : v.items[i].val.kind # "dict"

\* The input d of import_jiggle_config_from_dict is no dict, has no key
\* 'chains', or has a 'chains' value that is no list of dicts.
InvalidImport(d) ==
    \/ d.kind # "dict"
    \/ \A i \in 1..Len(d.items) : d.items[i].key # "chains"
    \/ \E i \in 1..Len(d.items) :
           d.items[i].key = "chains" /\ NotAListOfDicts(d.items[i].val)

\* The text t handed to from_json is the JSON of a value that is no list of
\* dicts.
InvalidText(t) ==
    \E v \in ChainLists \cup {FullEntry} : t = json_dumps(v) /\ NotAListOfDicts(v)

LoadOps == {"import_jiggle_config_from_dict", "from_json"}

\* C15: a call of import_jiggle_config_from_dict whose input is no dict,
\* lacks 'chains', or has a 'chains' value that is no list or holds an entry
\* that is no dict, and a call of from_json whose JSON is no list or holds
\* such an entry, returns False and leaves the chain list and the custom
\* property as they were.
C15_ValidatedBeforeClearing ==
    [][(\/ call'.op = "import_jiggle_config_from_dict" /\ InvalidImport(call'.config_dict)
        \/ call'.op = "from_json" /\ InvalidText(call'.json_string))
          => /\ call'.result = "False"
             /\ chains' = chains
             /\ custom_property' = custom_property]_vars

\* An import whose second entry is a number has returned False on an
\* armature that has two chains and its custom property.
C15_Witness ==
    /\ call.op = "import_jiggle_config_from_dict"
    /\ call.config_dict = PyDict(<< <<"chains", PyList(<<FullEntry, PyNum(5)>>)>> >>)
    /\ call.result = "False"
    /\ Len(chains) = 2
    /\ custom_property = [present |-> TRUE, value |-> to_json(chains)]

\* C16: whenever import_jiggle_config_from_dict or from_json returns False,
\* the chain list is what it was before the call.
C16_FailedLoadKeepsChains ==
    [][(call'.op \in LoadOps /\ call'.result = "False") => chains' = chains]_vars

\* The chain list a with the bone names of its chain i set to start and end
\* and nothing else changed.
WithNames(a, i, start, end) ==
    [k \in 1..Len(a) |->
        IF k = i
        THEN [f \in ChainFields |->
                 CASE f = "start_bone" -> start
                   [] f = "end_bone" -> end
                   [] OTHER -> a[k][f]]
        ELSE a[k]]

\* C18: a run of set_chain_from_selection that fails a precondition (no
\* armature, no active chain, not edit mode, fewer than two names left by
\* the filter) is cancelled and changes no chain; one that passes them and
\* fails validate_jiggle_chain on the first and last filtered names is
\* cancelled and leaves the active chain with both names empty and all else
\* as it was; one that passes validation leaves the active chain with these
\* two names and all else as it was.
C18_SetChainFromSelection ==
    [][call'.op = "set_chain_from_selection" =>
          LET names == side_filter[call'.selected_bones]
              i == active_chain_index + 1
              first == names[1]
              last == names[Len(names)]
              precondition ==
                  /\ IsArmature(obj)
                  /\ i \in 1..Len(chains)
                  /\ call'.mode = MODE_EDIT_ARMATURE
                  /\ Len(names) >= 2
          IN  IF ~precondition
              THEN call'.result = "CANCELLED" /\ chains' = chains
              ELSE IF ~validate_jiggle_chain(obj, first, last)[1]
              THEN /\ call'.result = "CANCELLED"
                   /\ chains' = WithNames(chains, i, "", "")
              ELSE chains' = WithNames(chains, i, first, last)]_vars

\* The tail selected from its tip up has failed validation on the first of
\* two imported chains: its names are empty, its physics and the second
\* chain are as imported.
C18_Witness ==
    /\ call.op = "set_chain_from_selection"
    /\ call.selected_bones = <<Tail_L_001, Tail_L>>
    /\ call.result = "CANCELLED"
    /\ call.report = "Invalid chain: " \o validate_jiggle_chain(obj, "tail_L.001", "tail_L")[2]
    /\ Len(chains) = 2
    /\ active_chain_index = 0
    /\ chains[1] = [start_bone |-> "", end_bone |-> "", stiffness |-> 250,
                    drag |-> 10, gravity |-> 980, radius |-> 5,
                    extend_end_bone |-> TRUE]
    /\ chains[2].start_bone = "tail_L"
    /\ chains[2].end_bone = "tail_L.001"

\* The custom property holds the JSON text of the current chain list.
Persisted == custom_property = [present |-> TRUE, value |-> to_json(chains)]

\* C19 (as stated): on an armature, after add_chain, remove_chain,
\* set_chain_from_selection, property edits and successful imports, none
\* with a save error, the custom property equals to_json() of the chain
\* list.
C19_PropertyEqualsToJson == (clean /\ IsArmature(obj) /\ call.op # "none") => Persisted

\* C19 (amended): after such operations the custom property equals
\* to_json() of the chain list, or none of them has changed a chain yet:
\* the custom property is absent and the chain list is empty.
C19_PersistedOnceChanged ==
    (clean /\ IsArmature(obj)) =>
        \/ Persisted
        \/ custom_property = NoProperty /\ chains = <<>>

\* After an import, an edit and a failed validation, the custom property
\* holds the JSON text of two chains, the first with empty names.
C19_Witness ==
    /\ clean
    /\ IsArmature(obj)
    /\ call.op = "set_chain_from_selection"
    /\ call.result = "CANCELLED"
    /\ Len(chains) = 2
    /\ chains[1].start_bone = ""
    /\ chains[1].gravity = 980
    /\ chains[2].stiffness = 250
    /\ Persisted

\* The active index points into the chain list, or is 0 when it is empty.
IndexValid ==
    IF chains = <<>>
    THEN active_chain_index = 0
    ELSE 0 <= active_chain_index /\ active_chain_index < Len(chains)

\* The list a without its entry at position i.
Without(a, i) == [k \in 1..(Len(a) - 1) |-> IF k < i THEN a[k] ELSE a[k + 1]]

\* C20: when the chain list is only changed by add_chain and remove_chain,
\* the active index is always valid; add_chain on an armature puts one
\* chain at the end and makes it active; remove_chain on an armature with
\* chains deletes the active one and leaves the index at the larger of 0
\* and index - 1.
C20_ActiveIndex ==
    /\ []IndexValid
    /\ [][(call'.op = "add_chain" /\ IsArmature(obj)) =>
              /\ Len(chains') = Len(chains) + 1
              /\ SubSeq(chains', 1, Len(chains)) = chains
              /\ active_chain_index' = Len(chains') - 1]_vars
    /\ [][(call'.op = "remove_chain" /\ IsArmature(obj) /\ chains # <<>>) =>
              /\ chains' = Without(chains, active_chain_index + 1)
              /\ active_chain_index' \in {0, active_chain_index - 1}
              /\ active_chain_index' >= 0
              /\ active_chain_index' >= active_chain_index - 1]_vars

\* remove_chain has deleted the second of two chains, which was active: the
\* chain edited before it is left and is active.
C20_Witness ==
    /\ call.op = "remove_chain"
    /\ call.result = "FINISHED"
    /\ call.report = SUCCESS_REMOVED_CHAIN
    /\ Len(chains) = 1
    /\ chains[1].stiffness = 250
    /\ active_chain_index = 0

\* C21: when build_chain_from_top has returned is_linear = True, the chain
\* starts with the topmost bone, a bone with no selected bone above it; it
\* holds selected bones only and none twice; every bone after the first has
\* the bone before it as its parent; and when execute has finished, every
\* COPY_ROTATION constraint on the armature that a bone of the chain has
\* copies from the parent of that bone, and every bone after the first that
\* has a pose bone has one.
C21_LinearChainOfParents ==
    (BuiltChain /\ frame.is_linear) =>
        LET p == obj.parent
            chain == frame.chain
        IN  /\ chain # <<>>
            /\ chain[1] = frame.top_bone
            /\ IsTopmost(p, selected_bone_names, chain[1])
            /\ Range(chain) \subseteq Range(selected_bone_names) \cap DOMAIN p
            /\ \A i, j \in 1..Len(chain) : i # j => chain[i] # chain[j]
            /\ \A i \in 2..Len(chain) : p[chain[i]] = chain[i - 1]
            /\ FinishedChain =>
                   \A i \in 2..Len(chain) :
                       chain[i] \in DOMAIN constraints =>
                           /\ OwnConstraints(constraints[chain[i]], obj) # {}
                           /\ \A k \in OwnConstraints(constraints[chain[i]], obj) :
                                  constraints[chain[i]][k].subtarget = p[chain[i]]

\* C, A and B of the line A, B, C are selected in this order with a new
\* edit bone, and execute has finished: the chain is A, B, C, and B copies
\* from A and C from B.
C21_Witness ==
    /\ FinishedChain
    /\ frame.is_linear
    /\ selected_bone_names = <<"C", "D", "A", "B">>
    /\ DOMAIN obj.parent = {"A", "B", "C"}
    /\ frame.chain = <<"A", "B", "C">>
    /\ constraints["B"][1].subtarget = "A"
    /\ constraints["C"][1].subtarget = "B"

\* C22: on every skeleton, parent cycles included, and for every selection,
\* find_topmost_bone, build_chain_from_top and build_chain_bfs each return
\* after finitely many passes of their loops.
C22_BuildersTerminate ==
    /\ (at = "find_topmost_bone") ~> (at # "find_topmost_bone")
    /\ (at = "build_chain_from_top") ~> (at # "build_chain_from_top")
    /\ (at = "build_chain_bfs") ~> (at # "build_chain_bfs")
====
